---- MODULE Spec2Model ----
(***************************************************************************)
(* The move search of 418-Engine: the iterative deepener (solve) and the   *)
(* alpha-beta driver (solve_serial_engine) of the two engines,             *)
(*   super-engine : transposition table keyed by a Zobrist fingerprint,    *)
(*   prune-engine : PV move, killer moves and history heuristic.           *)
(* The chess rules library (thc) is a collaborator: it is modelled as a    *)
(* finite game of positions with legal-move lists, push/pop with an undo   *)
(* stack, draw and terminal detection.  Scores are the engines' float      *)
(* scores, which are whole numbers throughout and are kept as integers.    *)
(***************************************************************************)
EXTENDS Integers, Sequences, FiniteSets, TLC

(***************************************************************************)
(* Bounds of the model.                                                    *)
(***************************************************************************)
\* deepest iteration run by solve (MAX_DEPTH is 8 resp. 7 in the sources)
MaxDepth == 5
\* number of solve calls made on one engine object
MaxSolves == 2
\* the table has 2^TTBits slots (2^20 in the source)
TTBits == 2

(***************************************************************************)
(* Program constants.                                                      *)
(***************************************************************************)
INF_SCORE == 1000000
MAX_DEPTH == MaxDepth
MAX_KILLER_MOVES == 2
TimeCheckPeriod == 5
RepetitionLimit == 3
FiftyMoveLimit == 100

RECURSIVE Pow2(_)
Pow2(n) == IF n = 0 THEN 1 ELSE 2 * Pow2(n - 1)

TT_SIZE == Pow2(TTBits)

Max(a, b) == IF a >= b THEN a ELSE b
Min(a, b) == IF a <= b THEN a ELSE b

(***************************************************************************)
(* Piece-square tables (square 0 = a8 ... 63 = h1; tuple index = sq + 1).  *)
(***************************************************************************)
pawn_table == <<
     0,  0,  0,  0,  0,  0,  0,  0,
    50, 50, 50, 50, 50, 50, 50, 50,
    10, 10, 20, 30, 30, 20, 10, 10,
     5,  5, 10, 25, 25, 10,  5,  5,
     0,  0,  0, 20, 20,  0,  0,  0,
     5, -5,-10,  0,  0,-10, -5,  5,
     5, 10, 10,-20,-20, 10, 10,  5,
     0,  0,  0,  0,  0,  0,  0,  0 >>

knight_table == <<
    -50,-40,-30,-30,-30,-30,-40,-50,
    -40,-20,  0,  0,  0,  0,-20,-40,
    -30,  0, 10, 15, 15, 10,  0,-30,
    -30,  5, 15, 20, 20, 15,  5,-30,
    -30,  0, 15, 20, 20, 15,  0,-30,
    -30,  5, 10, 15, 15, 10,  5,-30,
    -40,-20,  0,  5,  5,  0,-20,-40,
    -50,-40,-30,-30,-30,-30,-40,-50 >>

bishop_table == <<
    -20,-10,-10,-10,-10,-10,-10,-20,
    -10,  0,  0,  0,  0,  0,  0,-10,
    -10,  0,  5, 10, 10,  5,  0,-10,
    -10,  5,  5, 10, 10,  5,  5,-10,
    -10,  0, 10, 10, 10, 10,  0,-10,
    -10, 10, 10, 10, 10, 10, 10,-10,
    -10,  5,  0,  0,  0,  0,  5,-10,
    -20,-10,-10,-10,-10,-10,-10,-20 >>

rook_table == <<
     0,  0,  0,  0,  0,  0,  0,  0,
     5, 10, 10, 10, 10, 10, 10,  5,
    -5,  0,  0,  0,  0,  0,  0, -5,
    -5,  0,  0,  0,  0,  0,  0, -5,
    -5,  0,  0,  0,  0,  0,  0, -5,
    -5,  0,  0,  0,  0,  0,  0, -5,
    -5,  0,  0,  0,  0,  0,  0, -5,
     0,  0,  0,  5,  5,  0,  0,  0 >>

queen_table == <<
    -20,-10,-10, -5, -5,-10,-10,-20,
    -10,  0,  0,  0,  0,  0,  0,-10,
    -10,  0,  5,  5,  5,  5,  0,-10,
     -5,  0,  5,  5,  5,  5,  0, -5,
      0,  0,  5,  5,  5,  5,  0, -5,
    -10,  5,  5,  5,  5,  5,  0,-10,
    -10,  0,  5,  0,  0,  0,  0,-10,
    -20,-10,-10, -5, -5,-10,-10,-20 >>

king_table == <<
    -30,-40,-40,-50,-50,-40,-40,-30,
    -30,-40,-40,-50,-50,-40,-40,-30,
    -30,-40,-40,-50,-50,-40,-40,-30,
    -30,-40,-40,-50,-50,-40,-40,-30,
    -20,-30,-30,-40,-40,-30,-30,-20,
    -10,-20,-20,-20,-20,-20,-20,-10,
     20, 20,  0,  0,  0,  0, 20, 20,
     20, 30, 10,  0,  0, 10, 30, 20 >>

(***************************************************************************)
(* thc::Move: source and destination square, special tag, captured piece.  *)
(* Moves compare by value.                                                 *)
(***************************************************************************)
Mv(s, d, sp, cap) == [src |-> s, dst |-> d, special |-> sp, capture |-> cap]

\* thc::Move() : the value-initialised move, the "no move" sentinel
InvalidMove == Mv(0, 0, "NOT_SPECIAL", "0")
\* a bit pattern that is no legal move of any position
JunkMove == Mv(63, 63, "JUNK", "?")
\* what an object holds before anything was assigned to it
Uninit == Mv(-1, -1, "UNINIT", "?")

(***************************************************************************)
(* The positions of the game.  Each row: side to move, castling mask,      *)
(* en-passant file (8 = none), insufficient material, terminal status when *)
(* there is no legal move, the static evaluation, the XOR of the           *)
(* piece-square fingerprints of the placement, and the legal moves in      *)
(* generation order, each with the moved piece and the resulting position. *)
(***************************************************************************)
Lm(m, p, t) == [mv |-> m, piece |-> p, to |-> t]

Bd(w, c, e, ins, term, ev, z, ms) ==
    [wtm |-> w, castle |-> c, ep |-> e, insufficient |-> ins,
     terminal |-> term, eval |-> ev, zpl |-> z, moves |-> ms]

Game == <<
  \* 1: white; knight tour g1-f3 starts a four-move cycle
  Bd(TRUE, 0, 8, FALSE, "NOT_TERMINAL", 10, 9,
     << Lm(Mv(57, 40, "NOT_SPECIAL", " "), "N", 13),
        Lm(Mv(62, 45, "NOT_SPECIAL", " "), "N", 2),
        Lm(Mv(56, 8, "NOT_SPECIAL", "p"), "R", 5) >>),
  \* 2: black
  Bd(FALSE, 0, 8, FALSE, "NOT_TERMINAL", 50, 14,
     << Lm(Mv(15, 23, "NOT_SPECIAL", " "), "p", 6),
        Lm(Mv(6, 21, "NOT_SPECIAL", " "), "n", 3) >>),
  \* 3: white
  Bd(TRUE, 0, 8, FALSE, "NOT_TERMINAL", 30, 23,
     << Lm(Mv(45, 62, "NOT_SPECIAL", " "), "N", 4),
        Lm(Mv(56, 0, "NOT_SPECIAL", "r"), "R", 10) >>),
  \* 4: black; the knight returns and the cycle closes
  Bd(FALSE, 0, 8, FALSE, "NOT_TERMINAL", 40, 28,
     << Lm(Mv(21, 6, "NOT_SPECIAL", " "), "n", 1) >>),
  \* 5: black is stalemated, a queen down
  Bd(FALSE, 0, 8, FALSE, "BSTALEMATE", 900, 35, << >>),
  \* 6: white
  Bd(TRUE, 0, 8, FALSE, "NOT_TERMINAL", -20, 42,
     << Lm(Mv(48, 32, "NOT_SPECIAL", " "), "P", 12),
        Lm(Mv(60, 52, "NOT_SPECIAL", " "), "K", 7) >>),
  \* 7: black mates in one
  Bd(FALSE, 0, 8, FALSE, "NOT_TERMINAL", -60, 49,
     << Lm(Mv(3, 39, "NOT_SPECIAL", " "), "q", 8) >>),
  \* 8: white is checkmated
  Bd(TRUE, 0, 8, FALSE, "WCHECKMATE", 0, 52, << >>),
  \* 9: white is stalemated
  Bd(TRUE, 0, 8, FALSE, "WSTALEMATE", 0, 59, << >>),
  \* 10: black, insufficient material
  Bd(FALSE, 0, 8, TRUE, "NOT_TERMINAL", 0, 3,
     << Lm(Mv(4, 12, "NOT_SPECIAL", " "), "k", 11) >>),
  \* 11: white, insufficient material
  Bd(TRUE, 0, 8, TRUE, "NOT_TERMINAL", 0, 6,
     << Lm(Mv(60, 52, "NOT_SPECIAL", " "), "K", 10) >>),
  \* 12: black, en-passant capture available on the a-file
  Bd(FALSE, 0, 0, FALSE, "NOT_TERMINAL", -30, 17,
     << Lm(Mv(33, 40, "BEN_PASSANT", "P"), "p", 9) >>),
  \* 13: black
  Bd(FALSE, 0, 8, FALSE, "NOT_TERMINAL", 50, 20,
     << Lm(Mv(8, 16, "NOT_SPECIAL", " "), "p", 14) >>),
  \* 14: white; mate in one by the queen, or a pawn grab that mates in three
  Bd(TRUE, 0, 8, FALSE, "NOT_TERMINAL", 70, 27,
     << Lm(Mv(59, 31, "NOT_SPECIAL", " "), "Q", 15),
        Lm(Mv(59, 11, "NOT_SPECIAL", "p"), "Q", 16) >>),
  \* 15: black is checkmated
  Bd(FALSE, 0, 8, FALSE, "BCHECKMATE", 0, 30, << >>),
  \* 16: black
  Bd(FALSE, 0, 8, FALSE, "NOT_TERMINAL", 300, 33,
     << Lm(Mv(4, 11, "NOT_SPECIAL", "Q"), "k", 17) >>),
  \* 17: white mates in one
  Bd(TRUE, 0, 8, FALSE, "NOT_TERMINAL", 100, 44,
     << Lm(Mv(56, 0, "NOT_SPECIAL", " "), "R", 18) >>),
  \* 18: black is checkmated
  Bd(FALSE, 0, 8, FALSE, "BCHECKMATE", 0, 55, << >>),
  \* 19: white; a pawn takes a pawn and is taken back by the knight
  Bd(TRUE, 0, 8, FALSE, "NOT_TERMINAL", 0, 62,
     << Lm(Mv(35, 28, "NOT_SPECIAL", "p"), "P", 20) >>),
  \* 20: black
  Bd(FALSE, 0, 8, FALSE, "NOT_TERMINAL", -200, 71,
     << Lm(Mv(18, 28, "NOT_SPECIAL", "P"), "n", 21) >>),
  \* 21: white is stalemated
  Bd(TRUE, 0, 8, FALSE, "WSTALEMATE", -50, 78, << >>),
  \* 22: white; the pawn capture leads to stalemate, every other move is
  \* answered by a mate in one or by a capture that stalemates
  Bd(TRUE, 0, 8, FALSE, "NOT_TERMINAL", 0, 83,
     << Lm(Mv(52, 45, "NOT_SPECIAL", "p"), "P", 23),
        Lm(Mv(57, 42, "NOT_SPECIAL", " "), "N", 24),
        Lm(Mv(62, 47, "NOT_SPECIAL", " "), "N", 25),
        Lm(Mv(58, 44, "NOT_SPECIAL", " "), "B", 26),
        Lm(Mv(61, 43, "NOT_SPECIAL", " "), "B", 27) >>),
  \* 23: black
  Bd(FALSE, 0, 8, FALSE, "NOT_TERMINAL", 200, 86,
     << Lm(Mv(4, 5, "NOT_SPECIAL", " "), "k", 9) >>),
  \* 24: black
  Bd(FALSE, 0, 8, FALSE, "NOT_TERMINAL", 100, 89,
     << Lm(Mv(1, 16, "NOT_SPECIAL", " "), "n", 8) >>),
  \* 25: black
  Bd(FALSE, 0, 8, FALSE, "NOT_TERMINAL", 90, 92,
     << Lm(Mv(6, 23, "NOT_SPECIAL", " "), "n", 8) >>),
  \* 26: black
  Bd(FALSE, 0, 8, FALSE, "NOT_TERMINAL", 80, 97,
     << Lm(Mv(2, 20, "NOT_SPECIAL", " "), "b", 8) >>),
  \* 27: black
  Bd(FALSE, 0, 8, FALSE, "NOT_TERMINAL", 70, 102,
     << Lm(Mv(5, 43, "NOT_SPECIAL", "B"), "b", 9) >>)
>>

Boards == 1..Len(Game)

\* the number of pieces on each board of Game
PieceCount == << 5, 5, 5, 5, 4, 5, 5, 5, 4, 4, 4, 5, 5, 5, 5, 4, 3, 3, 6, 5, 4,
                 5, 4, 5, 5, 5, 5 >>

(***************************************************************************)
(* Rules adapter.  A position (thc::ChessRules) is the current board, the  *)
(* half-move clock and the undo stack of the boards played through.        *)
(***************************************************************************)
Position(b, c, h) == [board |-> b, clock |-> c, hist |-> h]

WhiteToPlay(cr) == Game[cr.board].wtm

\* GenLegalMoveList: the legal moves in generation order
GenLegalMoveList(cr) ==
    [i \in 1..Len(Game[cr.board].moves) |-> Game[cr.board].moves[i].mv]

SeqToSet(s) == {s[i] : i \in 1..Len(s)}

LegalEntry(cr, m) ==
    CHOOSE e \in SeqToSet(Game[cr.board].moves) : e.mv = m

\* cr.squares[move.src]
PieceOn(cr, m) == LegalEntry(cr, m).piece

IsPawnMove(cr, m) == PieceOn(cr, m) \in {"P", "p"}

\* PushMove: play the move and record the undo information
PushMove(cr, m) ==
    Position(LegalEntry(cr, m).to,
             IF m.capture # " " \/ IsPawnMove(cr, m) THEN 0 ELSE cr.clock + 1,
             Append(cr.hist, [board |-> cr.board, clock |-> cr.clock]))

\* PopMove: restore the state recorded by the matching PushMove
PopMove(cr) ==
    Position(cr.hist[Len(cr.hist)].board,
             cr.hist[Len(cr.hist)].clock,
             SubSeq(cr.hist, 1, Len(cr.hist) - 1))

GetRepetitionCount(cr) ==
    1 + Cardinality({i \in 1..Len(cr.hist) : cr.hist[i].board = cr.board})

\* IsDraw: insufficient material, 50-move rule, threefold repetition
IsDraw(cr) ==
    \/ Game[cr.board].insufficient
    \/ cr.clock >= FiftyMoveLimit
    \/ GetRepetitionCount(cr) >= RepetitionLimit

\* Evaluate: the terminal status of the position
Evaluate(cr) == Game[cr.board].terminal

(***************************************************************************)
(* Zobrist keying.  Keys are KeyBits wide here; XOR is bitwise.            *)
(***************************************************************************)
RECURSIVE Xor(_, _)
Xor(a, b) ==
    IF a = 0 THEN b
    ELSE IF b = 0 THEN a
    ELSE (((a % 2) + (b % 2)) % 2) + 2 * Xor(a \div 2, b \div 2)

zobrist_side == 64
zobrist_castling == << 5, 75, 18, 99, 41, 120, 66, 7, 88, 29, 110, 51, 13, 94, 36, 77 >>
zobrist_en_passant == << 128, 130, 133, 135, 138, 140, 143, 145 >>

\* compute_zobrist_key: pieces, side to move, castling mask, en-passant file
compute_zobrist_key(cr) ==
    LET b == Game[cr.board]
        k1 == b.zpl
        k2 == IF ~b.wtm THEN Xor(k1, zobrist_side) ELSE k1
        k3 == Xor(k2, zobrist_castling[b.castle + 1])
    IN  IF b.ep # 8 THEN Xor(k3, zobrist_en_passant[b.ep + 1]) ELSE k3

\* key & (TT_SIZE - 1)
TTIndex(key) == key % TT_SIZE

(***************************************************************************)
(* Evaluation and move scoring.                                            *)
(***************************************************************************)
static_eval(cr) == Game[cr.board].eval

PieceTable(piece) ==
    CASE piece \in {"P", "p"} -> pawn_table
      [] piece \in {"N", "n"} -> knight_table
      [] piece \in {"B", "b"} -> bishop_table
      [] piece \in {"R", "r"} -> rook_table
      [] piece \in {"Q", "q"} -> queen_table
      [] piece \in {"K", "k"} -> king_table

IsUpper(piece) == piece \in {"P", "N", "B", "R", "Q", "K"}

CaptureBonus(cap) ==
    CASE cap \in {"p", "P"} -> 1
      [] cap \in {"n", "N"} -> 3
      [] cap \in {"b", "B"} -> 3
      [] cap \in {"r", "R"} -> 5
      [] cap \in {"q", "Q"} -> 9
      [] cap \in {"k", "K"} -> 1000
      [] OTHER -> 0

Promotions ==
    {"PROMOTION_QUEEN", "PROMOTION_ROOK", "PROMOTION_BISHOP", "PROMOTION_KNIGHT"}

\* score_move, in hundredths (the source divides the table delta by 100)
score_move(m, cr) ==
    LET piece == PieceOn(cr, m)
        t == PieceTable(piece)
        from == IF IsUpper(piece) THEN m.src ELSE 63 - m.src
        to == IF IsUpper(piece) THEN m.dst ELSE 63 - m.dst
    IN  100 * (IF m.capture # " " THEN CaptureBonus(m.capture) ELSE 0)
        + (IF m.special \in Promotions THEN 900 ELSE 0)
        + (t[to + 1] - t[from + 1])

\* std::sort with comparator a.first > b.first on a short vector
\* (insertion sort: equal keys keep their order)
RECURSIVE InsertDesc(_, _)
InsertDesc(sorted, e) ==
    IF sorted = << >> THEN << e >>
    ELSE IF e[1] > sorted[Len(sorted)][1]
         THEN Append(InsertDesc(SubSeq(sorted, 1, Len(sorted) - 1), e),
                     sorted[Len(sorted)])
         ELSE Append(sorted, e)

RECURSIVE SortDesc(_)
SortDesc(s) ==
    IF s = << >> THEN << >>
    ELSE InsertDesc(SortDesc(SubSeq(s, 1, Len(s) - 1)), s[Len(s)])

(***************************************************************************)
(* Transposition table (super-engine).                                     *)
(***************************************************************************)
TTEntry(k, d, sc, bd, bm) ==
    [key |-> k, depth |-> d, score |-> sc, bound |-> bd, best_move |-> bm]

\* init_transposition_table
init_transposition_table ==
    [i \in 0..(TT_SIZE - 1) |-> TTEntry(0, -1, 0, "BOUND_EXACT", InvalidMove)]

\* probe_tt: the slot of the key, when it holds this key
probe_tt(table, key) == table[TTIndex(key)].key = key

\* variant: a result of equal depth replaces the slot too
store_tt_replace_on_equal(table, key, depth, score, bound, best_move) ==
    IF depth >= table[TTIndex(key)].depth
    THEN [table EXCEPT ![TTIndex(key)] = TTEntry(key, depth, score, bound, best_move)]
    ELSE table

\* store_tt: replace the slot only by a deeper result
store_tt(table, key, depth, score, bound, best_move) ==
    IF depth > table[TTIndex(key)].depth
    THEN [table EXCEPT ![TTIndex(key)] = TTEntry(key, depth, score, bound, best_move)]
    ELSE table

\* variant: an entry of the key is used whatever depth it holds
ProbeCutIgnoresDepth(table, key, search_depth, alpha, beta) ==
    LET e == table[TTIndex(key)]
        usable == probe_tt(table, key)
        a1 == IF usable /\ e.bound = "BOUND_LOWER" THEN Max(alpha, e.score) ELSE alpha
        b1 == IF usable /\ e.bound = "BOUND_UPPER" THEN Min(beta, e.score) ELSE beta
        cut == /\ usable
               /\ \/ e.bound = "BOUND_EXACT"
                  \/ e.bound = "BOUND_LOWER" /\ e.score >= beta
                  \/ e.bound = "BOUND_UPPER" /\ e.score <= alpha
                  \/ a1 >= b1
    IN  [cut |-> cut, usable |-> usable, score |-> e.score,
         alpha |-> a1, beta |-> b1]

\* the use of a table hit at a node: a cut with the stored score, or a
\* narrowed window
ProbeCut(table, key, search_depth, alpha, beta) ==
    LET e == table[TTIndex(key)]
        usable == probe_tt(table, key) /\ e.depth >= search_depth
        a1 == IF usable /\ e.bound = "BOUND_LOWER" THEN Max(alpha, e.score) ELSE alpha
        b1 == IF usable /\ e.bound = "BOUND_UPPER" THEN Min(beta, e.score) ELSE beta
        cut == /\ usable
               /\ \/ e.bound = "BOUND_EXACT"
                  \/ e.bound = "BOUND_LOWER" /\ e.score >= beta
                  \/ e.bound = "BOUND_UPPER" /\ e.score <= alpha
                  \/ a1 >= b1
    IN  [cut |-> cut, usable |-> usable, score |-> e.score,
         alpha |-> a1, beta |-> b1]

\* the bound type stored for a finished node
BoundOf(best_score, alpha_original, beta_score) ==
    IF best_score <= alpha_original THEN "BOUND_UPPER"
    ELSE IF best_score >= beta_score THEN "BOUND_LOWER"
    ELSE "BOUND_EXACT"

(***************************************************************************)
(* State.                                                                  *)
(***************************************************************************)
VARIABLES
    engine,              \* "super" or "prune": which engine object this is
    cr,                  \* the position handed to solve
    root,                \* the position as it was when solve was called
    transposition_table, \* super-engine
    pv_moves,            \* prune-engine
    killer_moves,        \* prune-engine, one list per ply
    history_table,       \* prune-engine, indexed by (src, dst)
    time_limit_reached,  \* the cancellation flag
    expired,             \* the wall clock has passed start_time + limit
    phase,               \* where solve is: idle, for, search, after
    solves,              \* solve calls finished so far
    current_depth,       \* solve: loop variable
    current_best_move,   \* solve: the out parameter of the root call
    current_score,       \* solve: the score of the last completed iteration
    best_move_so_far,    \* solve
    move_found,          \* solve
    result,              \* the move returned by the last solve
    stack,               \* the frames of solve_serial_engine, root first
    ret,                 \* the value returned by the frame that just ended
    cancelled_at,        \* history: ply of the node that set the flag, -1 if none
    tt_used,             \* history: a table entry was usable in this iteration
    completed_best,      \* history: root move of the last completed iteration
    prev,                \* history: root, move and outcome of the solve before
    last_store,          \* history: the last call of store_tt and the slot it found
    args,                \* main: argc and argv[1]
    driver,              \* main: start, init, loop or exit
    computer_is_white,   \* main
    computer_is_black,   \* main
    exit_status,         \* main: the value returned, -1 while running
    killer_age,          \* history: per ply, the killers held, oldest record first
    qstack,              \* the frames of quiesce, outermost first
    qwindow,             \* history: the window of the outermost quiesce call
    pawn_files,          \* the files of one side's pawns, as static_eval collects them
    pawn_ret             \* what evaluate_pawn_structure returned

vars == << engine, cr, root, transposition_table, pv_moves, killer_moves,
           history_table, time_limit_reached, expired, phase, solves,
           current_depth, current_best_move, current_score, best_move_so_far,
           move_found, result, stack, ret, cancelled_at, tt_used,
           completed_best, prev, last_store, args, driver,
           computer_is_white, computer_is_black, exit_status,
           killer_age, qstack, qwindow, pawn_files, pawn_ret >>

driverVars == << args, driver, computer_is_white, computer_is_black, exit_status >>
quiesceVars == << qstack, qwindow >>
pawnVars == << pawn_files, pawn_ret >>
engineVars == << transposition_table, pv_moves, killer_moves, history_table >>
solveVars == << current_depth, current_best_move, current_score,
                best_move_so_far, move_found >>
historyVars == << cancelled_at, tt_used, completed_best, prev >>

NoStore == [valid |-> FALSE, key |-> 0, depth |-> 0,
            old |-> TTEntry(0, -1, 0, "BOUND_EXACT", InvalidMove)]

NoRet == [valid |-> FALSE, score |-> 0]
NoWindow == [alpha |-> 0, beta |-> 0]
NoSolve == [valid |-> FALSE, root |-> Position(1, 0, << >>), move |-> Uninit,
            cancelled |-> FALSE]
Returned(sc) == [valid |-> TRUE, score |-> sc]

\* the command lines main is started with: no argument, or one argument
CommandLines ==
    { [argc |-> 1, argv1 |-> ""] }
    \cup { [argc |-> 2, argv1 |-> a] : a \in {"--white", "--black", "--help", ""} }

\* the positions solve is called on.  solve is the engine's entry point and
\* takes any position, a drawn or checkmated one included; the game loop of
\* main hands it the position of the game whenever the computer's side is to
\* move (and itself stops the game at a terminal or drawn position)
OneCycle == << [board |-> 1, clock |-> 0], [board |-> 2, clock |-> 1],
               [board |-> 3, clock |-> 2], [board |-> 4, clock |-> 3] >>
Roots == { Position(1, 4, OneCycle),          \* seen once before
           Position(1, FiftyMoveLimit, << >>), \* drawn by the 50-move rule
           Position(14, 0, << >>),
           Position(17, 0, << >>),
           Position(16, 0, << >>),            \* black to move
           Position(22, 0, << >>),            \* four refuted moves
           Position(15, 0, << >>) }            \* checkmated

\* the position the driver holds before the first solve
StartPosition == Position(1, 4, OneCycle)

\* the values an object can hold that was never assigned
Indeterminate == { InvalidMove, JunkMove }
Resolve(m) == IF m = Uninit THEN Indeterminate ELSE {m}

HistKeys ==
    UNION { { << Game[b].moves[i].mv.src, Game[b].moves[i].mv.dst >> :
                i \in 1..Len(Game[b].moves) } : b \in Boards }

(***************************************************************************)
(* Frames of solve_serial_engine.                                          *)
(***************************************************************************)
\* variant: the ply from the root is taken as the depth of the result
SearchDepthIsPly(depth, max_depth) == depth

\* search_depth: the plies left below the node
SearchDepth(depth, max_depth) == max_depth - depth

Frame(w, d, md, a, b) ==
    [is_white_player |-> w, depth |-> d, max_depth |-> md,
     alpha_score |-> a, beta_score |-> b, alpha_original |-> a,
     key |-> 0, search_depth |-> SearchDepth(d, md),
     scored_moves |-> << >>, i |-> 1,
     best_score |-> 0, local_best |-> Uninit, pc |-> "entry"]

Top == stack[Len(stack)]
Pop(s) == SubSeq(s, 1, Len(s) - 1)
SetTop(s, f) == [s EXCEPT ![Len(s)] = f]

\* score of a checkmate or stalemate at ply depth
TerminalScore(t, depth) ==
    CASE t = "WCHECKMATE" -> -INF_SCORE + depth
      [] t = "BCHECKMATE" -> INF_SCORE - depth
      [] OTHER -> 0

\* super-engine: every legal move scored by score_move, sorted
OrderSuper(pos) ==
    LET legal == GenLegalMoveList(pos)
        sorted == SortDesc([i \in 1..Len(legal) |-> << score_move(legal[i], pos), legal[i] >>])
    IN  [i \in 1..Len(sorted) |-> sorted[i][2]]

RECURSIVE Erase(_, _)
\* legal_moves.erase(std::find(...)): drop the first occurrence
Erase(s, m) ==
    IF s = << >> THEN << >>
    ELSE IF s[1] = m THEN SubSeq(s, 2, Len(s))
    ELSE << s[1] >> \o Erase(SubSeq(s, 2, Len(s)), m)

RECURSIVE KillerPassNoErase(_, _, _)
\* variant: a killer that is placed stays in the remainder
KillerPassNoErase(killers, legal, acc) ==
    IF killers = << >> THEN [scored |-> acc, legal |-> legal]
    ELSE IF killers[1] \in SeqToSet(legal)
         THEN KillerPassNoErase(SubSeq(killers, 2, Len(killers)), legal,
                                Append(acc, << (INF_SCORE - 1) * 100, killers[1] >>))
         ELSE KillerPassNoErase(SubSeq(killers, 2, Len(killers)), legal, acc)

RECURSIVE KillerPass(_, _, _)
\* the killer moves that are legal, in list order, each taken out of legal
KillerPass(killers, legal, acc) ==
    IF killers = << >> THEN [scored |-> acc, legal |-> legal]
    ELSE IF killers[1] \in SeqToSet(legal)
         THEN KillerPass(SubSeq(killers, 2, Len(killers)), Erase(legal, killers[1]),
                         Append(acc, << (INF_SCORE - 1) * 100, killers[1] >>))
         ELSE KillerPass(SubSeq(killers, 2, Len(killers)), legal, acc)

\* prune-engine: PV move, killer moves, then score_move plus history
OrderPrune(pos, depth, pv, killers, history) ==
    LET legal0 == GenLegalMoveList(pos)
        hasPv == depth < Len(pv) /\ pv[depth + 1] \in SeqToSet(legal0)
        s1 == IF hasPv THEN << << INF_SCORE * 100, pv[depth + 1] >> >> ELSE << >>
        legal1 == IF hasPv THEN Erase(legal0, pv[depth + 1]) ELSE legal0
        kp == KillerPass(killers[depth + 1], legal1, s1)
        rest == [i \in 1..Len(kp.legal) |->
                   << score_move(kp.legal[i], pos)
                        + 100 * history[<< kp.legal[i].src, kp.legal[i].dst >>],
                      kp.legal[i] >>]
        sorted == SortDesc(kp.scored \o rest)
    IN  [i \in 1..Len(sorted) |-> sorted[i][2]]

(***************************************************************************)
(* quiesce up to its capture loop.                                         *)
(***************************************************************************)
QFrame(a, b) ==
    [alpha |-> a, beta |-> b, scored_moves |-> << >>, i |-> 1, pc |-> "entry"]

\* the capturing legal moves, sorted by score_move
CaptureOrder(pos) ==
    LET caps == SelectSeq(GenLegalMoveList(pos), LAMBDA m : m.capture # " ")
        sorted == SortDesc([i \in 1..Len(caps) |-> << score_move(caps[i], pos), caps[i] >>])
    IN  [i \in 1..Len(sorted) |-> sorted[i][2]]

\* quiesce up to its capture loop: a value to return or the frame at the loop.
\* The killer/history engine returns the static evaluation in its first
\* statement; the code after it is never executed.
QuiesceEntry(f, pos, eng) ==
    LET stand_pat == static_eval(pos)
        a == IF stand_pat > f.alpha THEN stand_pat ELSE f.alpha
        caps == CaptureOrder(pos)
    IN  IF eng = "prune" THEN [returns |-> TRUE, score |-> static_eval(pos), frame |-> f]
        ELSE IF stand_pat >= f.beta THEN [returns |-> TRUE, score |-> stand_pat, frame |-> f]
        ELSE IF caps = << >> THEN [returns |-> TRUE, score |-> a, frame |-> f]
        ELSE [returns |-> FALSE, score |-> 0,
              frame |-> [f EXCEPT !.alpha = a, !.scored_moves = caps, !.pc = "loop"]]

\* variant: the horizon is taken one ply later
AtHorizonOnePlyLater(depth, max_depth) == depth = max_depth + 1

\* depth == max_depth
AtHorizon(depth, max_depth) == depth = max_depth

\* the value returned at the horizon: static_eval in the transposition-table
\* engine, quiesce (which returns at once) in the killer/history engine
HorizonValue(f, pos, eng) ==
    IF eng = "super" THEN static_eval(pos)
    ELSE QuiesceEntry(QFrame(f.alpha_score, f.beta_score), pos, eng).score

\* variant: the draw test comes before the table probe
NodeEntryDrawFirst(f, pos, table, pv, killers, history, eng) ==
    LET key == compute_zobrist_key(pos)
        pcut == IF eng = "super"
                THEN ProbeCut(table, key, f.search_depth, f.alpha_score, f.beta_score)
                ELSE [cut |-> FALSE, usable |-> FALSE, score |-> 0,
                      alpha |-> f.alpha_score, beta |-> f.beta_score]
        moves == IF eng = "super" THEN OrderSuper(pos)
                 ELSE OrderPrune(pos, f.depth, pv, killers, history)
    IN  IF IsDraw(pos) THEN [returns |-> TRUE, usable |-> FALSE, score |-> 0, frame |-> f]
        ELSE IF pcut.cut THEN [returns |-> TRUE, usable |-> TRUE, score |-> pcut.score, frame |-> f]
        ELSE IF Evaluate(pos) # "NOT_TERMINAL"
             THEN [returns |-> TRUE, usable |-> pcut.usable,
                   score |-> TerminalScore(Evaluate(pos), f.depth), frame |-> f]
        ELSE IF AtHorizon(f.depth, f.max_depth)
             THEN [returns |-> TRUE, usable |-> pcut.usable,
                   score |-> HorizonValue(f, pos, eng), frame |-> f]
        ELSE IF GenLegalMoveList(pos) = << >>
             THEN [returns |-> TRUE, usable |-> pcut.usable, score |-> 0, frame |-> f]
        ELSE [returns |-> FALSE, usable |-> pcut.usable, score |-> 0,
              frame |-> [f EXCEPT !.key = key,
                                  !.alpha_score = pcut.alpha,
                                  !.beta_score = pcut.beta,
                                  !.scored_moves = moves,
                                  !.i = 1,
                                  !.best_score =
                                      IF f.is_white_player THEN -INF_SCORE ELSE INF_SCORE,
                                  !.pc = "loop"]]

\* the checks of a node after the cancellation and time check, up to the
\* start of the move loop: either a value to return or the frame at the loop
NodeEntry(f, pos, table, pv, killers, history, eng) ==
    LET key == compute_zobrist_key(pos)
        pcut == IF eng = "super"
                THEN ProbeCut(table, key, f.search_depth, f.alpha_score, f.beta_score)
                ELSE [cut |-> FALSE, usable |-> FALSE, score |-> 0,
                      alpha |-> f.alpha_score, beta |-> f.beta_score]
        moves == IF eng = "super" THEN OrderSuper(pos)
                 ELSE OrderPrune(pos, f.depth, pv, killers, history)
    IN  IF pcut.cut THEN [returns |-> TRUE, usable |-> TRUE, score |-> pcut.score, frame |-> f]
        ELSE IF IsDraw(pos) THEN [returns |-> TRUE, usable |-> pcut.usable, score |-> 0, frame |-> f]
        ELSE IF Evaluate(pos) # "NOT_TERMINAL"
             THEN [returns |-> TRUE, usable |-> pcut.usable,
                   score |-> TerminalScore(Evaluate(pos), f.depth), frame |-> f]
        ELSE IF AtHorizon(f.depth, f.max_depth)
             THEN [returns |-> TRUE, usable |-> pcut.usable,
                   score |-> HorizonValue(f, pos, eng), frame |-> f]
        ELSE IF GenLegalMoveList(pos) = << >>
             THEN [returns |-> TRUE, usable |-> pcut.usable, score |-> 0, frame |-> f]
        ELSE [returns |-> FALSE, usable |-> pcut.usable, score |-> 0,
              frame |-> [f EXCEPT !.key = key,
                                  !.alpha_score = pcut.alpha,
                                  !.beta_score = pcut.beta,
                                  !.scored_moves = moves,
                                  !.i = 1,
                                  !.best_score =
                                      IF f.is_white_player THEN -INF_SCORE ELSE INF_SCORE,
                                  !.pc = "loop"]]

(***************************************************************************)
(* Initial state: a freshly constructed engine, no solve running.          *)
(***************************************************************************)
Init ==
    /\ args \in CommandLines
    /\ driver = "start"
    /\ computer_is_white = FALSE
    /\ computer_is_black = FALSE
    /\ exit_status = -1
    /\ engine \in {"super", "prune"}
    /\ cr = StartPosition
    /\ root = cr
    /\ transposition_table = init_transposition_table
    /\ pv_moves = << >>
    /\ killer_moves = [d \in 1..MAX_DEPTH |-> << >>]
    /\ history_table = [k \in HistKeys |-> 0]
    /\ time_limit_reached = FALSE
    /\ expired = FALSE
    /\ phase = "idle"
    /\ solves = 0
    /\ current_depth = 0
    /\ current_best_move = Uninit
    /\ current_score = 0
    /\ best_move_so_far = Uninit
    /\ move_found = FALSE
    /\ result = Uninit
    /\ stack = << >>
    /\ ret = NoRet
    /\ cancelled_at = -1
    /\ tt_used = FALSE
    /\ completed_best = Uninit
    /\ prev = NoSolve
    /\ last_store = NoStore
    /\ killer_age = [d \in 1..MAX_DEPTH |-> << >>]
    /\ pawn_files = << >>
    /\ pawn_ret = NoRet
    /\ qstack = << >>
    /\ qwindow = NoWindow

(***************************************************************************)
(* main: the command line, then the position and the engine.               *)
(***************************************************************************)
\* variant: an unknown argument is ignored and the default side is played
ParseArgsNoUsage(a) ==
    IF a.argc > 1 /\ a.argv1 = "--white"
    THEN [white |-> TRUE, black |-> FALSE, usage |-> FALSE]
    ELSE [white |-> FALSE, black |-> TRUE, usage |-> FALSE]

\* the side flags main sets for a command line, and whether it goes on
ParseArgs(a) ==
    IF a.argc > 1
    THEN IF a.argv1 = "--white" THEN [white |-> TRUE, black |-> FALSE, usage |-> FALSE]
         ELSE IF a.argv1 = "--black" THEN [white |-> FALSE, black |-> TRUE, usage |-> FALSE]
         ELSE [white |-> FALSE, black |-> FALSE, usage |-> TRUE]
    ELSE [white |-> FALSE, black |-> TRUE, usage |-> FALSE]

MainParse ==
    /\ driver = "start"
    /\ LET r == ParseArgs(args)
       IN  /\ computer_is_white' = r.white
           /\ computer_is_black' = r.black
           /\ driver' = IF r.usage THEN "exit" ELSE "init"
           /\ exit_status' = IF r.usage THEN 1 ELSE exit_status
    /\ UNCHANGED << pawnVars, quiesceVars, killer_age, args, engine, cr, root, engineVars, time_limit_reached,
                    expired, phase, solves, solveVars, result, stack, ret,
                    historyVars, last_store >>

\* cr.Forsyth("startpos") and the engine's constructor
MainConstruct ==
    /\ driver = "init"
    /\ driver' = "loop"
    /\ cr' = StartPosition
    /\ root' = StartPosition
    /\ transposition_table' = init_transposition_table
    /\ time_limit_reached' = FALSE
    /\ killer_moves' = [d \in 1..MAX_DEPTH |-> << >>]
    /\ history_table' = [k \in HistKeys |-> 0]
    /\ UNCHANGED << pawnVars, quiesceVars, killer_age, args, computer_is_white, computer_is_black, exit_status,
                    engine, pv_moves, expired, phase, solves, solveVars, result,
                    stack, ret, historyVars, last_store >>

(***************************************************************************)
(* solve: entry.  The game loop calls it with the position when the side   *)
(* to move is the computer's.                                              *)
(***************************************************************************)
SolveEntry(flag) ==
    /\ driver = "loop"
    /\ phase = "idle"
    /\ solves < MaxSolves
    /\ \E p \in Roots :
         /\ IF WhiteToPlay(p) THEN computer_is_white ELSE computer_is_black
         /\ cr' = p
         /\ root' = p
    /\ time_limit_reached' = flag
    /\ expired' = FALSE
    /\ best_move_so_far' = Uninit
    /\ move_found' = FALSE
    /\ pv_moves' = IF engine = "prune" THEN << >> ELSE pv_moves
    /\ current_depth' = 1
    /\ current_best_move' = Uninit
    /\ result' = Uninit
    /\ current_score' = 0
    /\ phase' = "for"
    /\ cancelled_at' = -1
    /\ tt_used' = FALSE
    /\ completed_best' = Uninit
    /\ prev' = IF solves = 0 THEN NoSolve
               ELSE [valid |-> TRUE, root |-> root, move |-> result,
                     cancelled |-> time_limit_reached]
    /\ last_store' = NoStore
    /\ UNCHANGED << pawnVars, quiesceVars, killer_age, driverVars, engine, transposition_table, killer_moves, history_table,
                    solves, stack, ret >>

\* variant: solve leaves the flag as the solve before left it
SolveNoReset == SolveEntry(time_limit_reached)

Solve == SolveEntry(FALSE)

\* the wall clock passes the time limit
Tick ==
    /\ phase \in {"for", "search"}
    /\ ~expired
    /\ expired' = TRUE
    /\ UNCHANGED << pawnVars, quiesceVars, killer_age, driverVars, engine, cr, root, engineVars, time_limit_reached, phase,
                    solves, solveVars, result, stack, ret, historyVars,
                    last_store >>

\* solve: head of the deepening loop, which runs up to depth limit, and the
\* root call
LoopHead(limit) ==
    /\ phase = "for"
    /\ IF current_depth > limit \/ time_limit_reached
       THEN /\ phase' = "after"
            /\ UNCHANGED << current_best_move, stack >>
       ELSE /\ phase' = "search"
            /\ current_best_move' = Uninit
            /\ stack' = << Frame(WhiteToPlay(cr), 0, current_depth,
                                 -INF_SCORE, INF_SCORE) >>
    /\ ret' = NoRet
    /\ tt_used' = FALSE
    /\ UNCHANGED << pawnVars, quiesceVars, killer_age, driverVars, engine, cr, root, engineVars, time_limit_reached, expired,
                    solves, current_depth, current_score, best_move_so_far,
                    move_found, result, cancelled_at, completed_best, prev,
                    last_store >>

\* variant: the loop runs one iteration more
IterBeginOneMore == LoopHead(MAX_DEPTH + 1)

IterBegin == LoopHead(MAX_DEPTH)

(***************************************************************************)
(* solve_serial_engine: node entry.                                        *)
(***************************************************************************)
\* variant: the clock is read at every ply
TimeCheckEveryPly(depth, clockExpired) == clockExpired

\* the clock is read at every fifth ply; true when the limit has passed
TimeCheck(depth, clockExpired) ==
    depth % TimeCheckPeriod = 0 /\ clockExpired

EnterNode ==
    /\ phase = "search"
    /\ stack # << >>
    /\ Top.pc = "entry"
    /\ IF time_limit_reached
       THEN /\ stack' = Pop(stack)
            /\ ret' = Returned(0)
            /\ UNCHANGED << time_limit_reached, cancelled_at, tt_used >>
       ELSE IF TimeCheck(Top.depth, expired)
       THEN /\ time_limit_reached' = TRUE
            /\ stack' = Pop(stack)
            /\ ret' = Returned(0)
            /\ cancelled_at' = Top.depth
            /\ UNCHANGED tt_used
       ELSE \E n \in { NodeEntry(Top, cr, transposition_table, pv_moves,
                                   killer_moves, history_table, engine) } :
                /\ UNCHANGED << time_limit_reached, cancelled_at >>
                /\ tt_used' = (tt_used \/ n.usable)
                /\ IF n.returns
                   THEN /\ stack' = Pop(stack)
                        /\ ret' = Returned(n.score)
                   ELSE /\ stack' = SetTop(stack, n.frame)
                        /\ ret' = NoRet
    /\ UNCHANGED << pawnVars, quiesceVars, killer_age, driverVars, engine, cr, root, engineVars, expired, phase, solves,
                    solveVars, result, completed_best, prev, last_store >>

\* the move loop: push the next move and recurse
PushChild ==
    /\ phase = "search"
    /\ stack # << >>
    /\ Top.pc = "loop"
    /\ LET f == Top
           m == f.scored_moves[f.i]
       IN  /\ cr' = PushMove(cr, m)
           /\ stack' = Append(SetTop(stack, [f EXCEPT !.pc = "wait"]),
                              Frame(~f.is_white_player, f.depth + 1, f.max_depth,
                                    f.alpha_score, f.beta_score))
    /\ ret' = NoRet
    /\ UNCHANGED << pawnVars, quiesceVars, killer_age, driverVars, engine, root, engineVars, time_limit_reached, expired, phase,
                    solves, solveVars, result, historyVars, last_store >>

\* variant: the score of a move replaces best_score without the comparison,
\* so the value of a node is the score of the last move expanded
AfterMoveLastWins(f, score) ==
    LET m == f.scored_moves[f.i]
        a == IF f.is_white_player THEN Max(f.alpha_score, score) ELSE f.alpha_score
        b == IF ~f.is_white_player THEN Min(f.beta_score, score) ELSE f.beta_score
        cutoff == b <= a
        last == f.i = Len(f.scored_moves)
    IN  [better |-> TRUE, cutoff |-> cutoff,
         frame |-> [f EXCEPT !.best_score = score,
                             !.local_best = m,
                             !.alpha_score = a,
                             !.beta_score = b,
                             !.i = IF cutoff \/ last THEN f.i ELSE f.i + 1,
                             !.pc = IF cutoff \/ last THEN "finish" ELSE "loop"]]

\* the frame after the score of a move is in: improvement and cutoff
AfterMove(f, score) ==
    LET m == f.scored_moves[f.i]
        better == IF f.is_white_player THEN score > f.best_score
                  ELSE score < f.best_score
        best == IF better THEN score ELSE f.best_score
        a == IF f.is_white_player /\ better THEN Max(f.alpha_score, best)
             ELSE f.alpha_score
        b == IF ~f.is_white_player /\ better THEN Min(f.beta_score, best)
             ELSE f.beta_score
        cutoff == b <= a
        last == f.i = Len(f.scored_moves)
    IN  [better |-> better, cutoff |-> cutoff,
         frame |-> [f EXCEPT !.best_score = best,
                             !.local_best = IF better THEN m ELSE f.local_best,
                             !.alpha_score = a,
                             !.beta_score = b,
                             !.i = IF cutoff \/ last THEN f.i ELSE f.i + 1,
                             !.pc = IF cutoff \/ last THEN "finish" ELSE "loop"]]

\* killer list of a ply after a cutoff by move m
RecordKiller(killers, m) ==
    IF m \in SeqToSet(killers) THEN killers
    ELSE IF Len(killers) < MAX_KILLER_MOVES THEN Append(killers, m)
    ELSE [killers EXCEPT ![1] = m]

\* the move loop after the recursive call: popped is the position after
\* PopMove, cancelled the flag as read after it
LoopReturn(popped, cancelled) ==
    /\ phase = "search"
    /\ stack # << >>
    /\ Top.pc = "wait"
    /\ ret.valid
    /\ cr' = popped
    /\ LET f == Top
           m == f.scored_moves[f.i]
           am == AfterMove(f, ret.score)
           isPv == f.depth < Len(pv_moves) /\ m = pv_moves[f.depth + 1]
       IN  IF cancelled
           THEN /\ stack' = Pop(stack)
                /\ ret' = Returned(0)
                /\ UNCHANGED << current_best_move, killer_moves, history_table,
                                killer_age >>
           ELSE /\ stack' = SetTop(stack, am.frame)
                /\ ret' = NoRet
                /\ current_best_move' =
                       IF engine = "prune" /\ f.depth = 0 /\ am.better
                       THEN m ELSE current_best_move
                /\ history_table' =
                       IF engine = "prune" /\ am.cutoff
                       THEN [history_table EXCEPT ![<< m.src, m.dst >>] = @ + 1]
                       ELSE history_table
                /\ killer_moves' =
                       IF engine = "prune" /\ am.cutoff /\ ~isPv
                       THEN [killer_moves EXCEPT ![f.depth + 1] = RecordKiller(@, m)]
                       ELSE killer_moves
                /\ killer_age' =
                       IF engine = "prune" /\ am.cutoff /\ ~isPv
                          /\ m \notin SeqToSet(killer_moves[f.depth + 1])
                       THEN [killer_age EXCEPT ![f.depth + 1] =
                               Append(SelectSeq(@, LAMBDA k :
                                          k \in SeqToSet(RecordKiller(killer_moves[f.depth + 1], m))),
                                      m)]
                       ELSE killer_age
    /\ UNCHANGED << pawnVars, quiesceVars, driverVars, engine, root, transposition_table, pv_moves,
                    time_limit_reached, expired, phase, solves, current_depth,
                    current_score, best_move_so_far, move_found, result,
                    historyVars, last_store >>

\* variant: the cancellation return is taken before the move is popped
ChildReturnedNoPopOnCancel ==
    LoopReturn(IF time_limit_reached THEN cr ELSE PopMove(cr), time_limit_reached)

\* variant: the flag is not looked at after the recursive call
ChildReturnedNoFlagCheck == LoopReturn(PopMove(cr), FALSE)

ChildReturned == LoopReturn(PopMove(cr), time_limit_reached)

\* after the move loop: table store, root move, return
FinishNode ==
    /\ phase = "search"
    /\ stack # << >>
    /\ Top.pc = "finish"
    /\ LET f == Top
       IN  /\ \E lb \in Resolve(f.local_best) :
                /\ transposition_table' =
                       IF engine = "super"
                       THEN store_tt(transposition_table, f.key, f.search_depth,
                                     f.best_score,
                                     BoundOf(f.best_score, f.alpha_original, f.beta_score),
                                     lb)
                       ELSE transposition_table
                /\ current_best_move' =
                       IF engine = "super" /\ f.depth = 0 THEN lb
                       ELSE current_best_move
           /\ last_store' =
                  IF engine = "super"
                  THEN [valid |-> TRUE, key |-> f.key, depth |-> f.search_depth,
                        old |-> transposition_table[TTIndex(f.key)]]
                  ELSE last_store
           /\ stack' = Pop(stack)
           /\ ret' = Returned(f.best_score)
    /\ UNCHANGED << pawnVars, quiesceVars, killer_age, driverVars, engine, cr, root, pv_moves, killer_moves, history_table,
                    time_limit_reached, expired, phase, solves, current_depth,
                    current_score, best_move_so_far, move_found, result,
                    historyVars >>

\* solve: the root call has returned; cancelled is the flag as read then
AfterRootCall(cancelled) ==
    /\ phase = "search"
    /\ stack = << >>
    /\ ret.valid
    /\ ret' = NoRet
    /\ IF cancelled
       THEN /\ phase' = "after"
            /\ UNCHANGED << current_depth, current_score, best_move_so_far,
                            move_found, pv_moves, completed_best >>
       ELSE /\ phase' = "for"
            /\ current_score' = ret.score
            /\ move_found' = TRUE
            /\ current_depth' = current_depth + 1
            /\ \E bm \in Resolve(current_best_move) :
                 /\ best_move_so_far' = bm
                 /\ completed_best' = IF time_limit_reached THEN completed_best ELSE bm
                 /\ pv_moves' =
                        IF engine # "prune" THEN pv_moves
                        ELSE IF current_depth <= Len(pv_moves)
                        THEN [pv_moves EXCEPT ![current_depth] = bm]
                        ELSE Append(pv_moves, bm)
    /\ UNCHANGED << pawnVars, quiesceVars, killer_age, driverVars, engine, cr, root, transposition_table, killer_moves,
                    history_table, time_limit_reached, expired, solves,
                    current_best_move, result, stack, cancelled_at, tt_used,
                    prev, last_store >>

\* variant: the iteration's move is adopted without looking at the flag
IterEndAdoptAlways == AfterRootCall(FALSE)

IterEnd == AfterRootCall(time_limit_reached)

\* variant: without a completed iteration the null move is returned
ReturnedMoveNoFallback(found, best, pos) ==
    IF found THEN best ELSE InvalidMove

\* the move solve returns
ReturnedMove(found, best, pos) ==
    IF found THEN best
    ELSE IF GenLegalMoveList(pos) # << >> THEN GenLegalMoveList(pos)[1]
    ELSE InvalidMove

\* solve: return
SolveReturn ==
    /\ phase = "after"
    /\ result' = ReturnedMove(move_found, best_move_so_far, cr)
    /\ phase' = "idle"
    /\ solves' = solves + 1
    /\ UNCHANGED << pawnVars, quiesceVars, killer_age, driverVars, engine, cr, root, engineVars, time_limit_reached, expired,
                    solveVars, stack, ret, historyVars, last_store >>

Next ==
    \/ MainParse
    \/ MainConstruct
    \/ Solve
    \/ Tick
    \/ IterBegin
    \/ EnterNode
    \/ PushChild
    \/ ChildReturned
    \/ FinishNode
    \/ IterEnd
    \/ SolveReturn

Spec == Init /\ [][Next]_vars

(***************************************************************************)
(* quiesce, called on its own: any position, any window alpha < beta, the  *)
(* cancellation flag as some earlier search left it.  The flag is written  *)
(* only by solve_serial_engine, so it does not change while quiesce runs.  *)
(***************************************************************************)
QTop == qstack[Len(qstack)]

\* the windows quiesce is called with
QScores == { -INF_SCORE, -100, 0, 60, 200, INF_SCORE }

InitQ ==
    /\ args = [argc |-> 1, argv1 |-> ""]
    /\ driver = "loop"
    /\ computer_is_white = FALSE
    /\ computer_is_black = TRUE
    /\ exit_status = -1
    /\ engine \in {"super", "prune"}
    /\ cr \in { Position(b, 0, << >>) : b \in Boards }
    /\ root = cr
    /\ transposition_table = init_transposition_table
    /\ pv_moves = << >>
    /\ killer_moves = [d \in 1..MAX_DEPTH |-> << >>]
    /\ history_table = [k \in HistKeys |-> 0]
    /\ time_limit_reached \in BOOLEAN
    /\ expired = time_limit_reached
    /\ phase = "quiesce"
    /\ solves = 0
    /\ current_depth = 0
    /\ current_best_move = Uninit
    /\ current_score = 0
    /\ best_move_so_far = Uninit
    /\ move_found = FALSE
    /\ result = Uninit
    /\ stack = << >>
    /\ ret = NoRet
    /\ cancelled_at = -1
    /\ tt_used = FALSE
    /\ completed_best = Uninit
    /\ prev = NoSolve
    /\ last_store = NoStore
    /\ killer_age = [d \in 1..MAX_DEPTH |-> << >>]
    /\ pawn_files = << >>
    /\ pawn_ret = NoRet
    /\ \E a \in QScores, b \in QScores :
         /\ a < b
         /\ qstack = << QFrame(a, b) >>
         /\ qwindow = [alpha |-> a, beta |-> b]

\* stand-pat test and capture list
QuiesceEnter ==
    /\ phase = "quiesce"
    /\ qstack # << >>
    /\ QTop.pc = "entry"
    /\ LET n == QuiesceEntry(QTop, cr, engine)
       IN  IF n.returns
           THEN /\ qstack' = Pop(qstack)
                /\ ret' = Returned(n.score)
           ELSE /\ qstack' = SetTop(qstack, n.frame)
                /\ ret' = NoRet
    /\ UNCHANGED << pawnVars, killer_age, driverVars, engine, cr, root, engineVars, time_limit_reached,
                    expired, phase, solves, solveVars, result, stack,
                    historyVars, last_store, qwindow >>

\* the capture loop: push the next capture and recurse with the negated window
QuiescePush ==
    /\ phase = "quiesce"
    /\ qstack # << >>
    /\ QTop.pc = "loop"
    /\ LET f == QTop
           m == f.scored_moves[f.i]
       IN  /\ cr' = PushMove(cr, m)
           /\ qstack' = Append(SetTop(qstack, [f EXCEPT !.pc = "wait"]),
                               QFrame(-f.beta, -f.alpha))
    /\ ret' = NoRet
    /\ UNCHANGED << pawnVars, killer_age, driverVars, engine, root, engineVars, time_limit_reached,
                    expired, phase, solves, solveVars, result, stack,
                    historyVars, last_store, qwindow >>

\* the capture loop after the recursive call: popped is the position after
\* PopMove, cancelled the flag as read after it
QuiesceAfterChild(popped, cancelled) ==
    /\ phase = "quiesce"
    /\ qstack # << >>
    /\ QTop.pc = "wait"
    /\ ret.valid
    /\ cr' = popped
    /\ LET f == QTop
           val == -ret.score
           a == IF val > f.alpha THEN val ELSE f.alpha
       IN  IF cancelled
           THEN /\ qstack' = Pop(qstack)
                /\ ret' = Returned(0)
           ELSE IF val >= f.beta
           THEN /\ qstack' = Pop(qstack)
                /\ ret' = Returned(val)
           ELSE IF f.i = Len(f.scored_moves)
           THEN /\ qstack' = Pop(qstack)
                /\ ret' = Returned(a)
           ELSE /\ qstack' = SetTop(qstack, [f EXCEPT !.alpha = a, !.i = f.i + 1,
                                                      !.pc = "loop"])
                /\ ret' = NoRet
    /\ UNCHANGED << pawnVars, killer_age, driverVars, engine, root, engineVars, time_limit_reached,
                    expired, phase, solves, solveVars, result, stack,
                    historyVars, last_store, qwindow >>

\* variant: the cancellation return is taken before the capture is popped
QuiesceReturnNoPopOnCancel ==
    QuiesceAfterChild(IF time_limit_reached THEN cr ELSE PopMove(cr), time_limit_reached)

QuiesceReturn == QuiesceAfterChild(PopMove(cr), time_limit_reached)

NextQ ==
    \/ QuiesceEnter
    \/ QuiescePush
    \/ QuiesceReturn

SpecQ == InitQ /\ [][NextQ]_vars

\* a call that can take a step takes it: the program runs
FairSpecQ == SpecQ /\ WF_vars(NextQ)

(***************************************************************************)
(* The move ordering of the killer/history engine on its own: a node at    *)
(* ply 0 or 1 of an iteration with max_depth 2, any position, and any      *)
(* content of pv_moves, of the killer list of the ply and of the history   *)
(* table built from the moves below.                                       *)
(***************************************************************************)
\* a move that is legal in another position
ForeignMove(b) == IF b = 1 THEN Game[2].moves[1].mv ELSE Game[1].moves[1].mv

\* the moves pv_moves and the killer list are filled with
OrderMoves(b) ==
    SeqToSet(GenLegalMoveList(Position(b, 0, << >>)))
        \cup { ForeignMove(b), InvalidMove, JunkMove }

\* killer lists: at most MAX_KILLER_MOVES moves, all distinct
KillerLists(b) ==
    { << >> } \cup { << m >> : m \in OrderMoves(b) }
        \cup { << p[1], p[2] >> :
                 p \in { q \in OrderMoves(b) \X OrderMoves(b) : q[1] # q[2] } }

\* history tables: all zero, or one counter at a small or at a huge count
HistoryCounts == { 3, INF_SCORE }
HistoryTables(b) ==
    { [k \in HistKeys |-> 0] }
        \cup { [k \in HistKeys |-> IF k = << m.src, m.dst >> THEN c ELSE 0] :
                 m \in SeqToSet(GenLegalMoveList(Position(b, 0, << >>))),
                 c \in HistoryCounts }

InitOrder ==
    /\ args = [argc |-> 1, argv1 |-> ""]
    /\ driver = "loop"
    /\ computer_is_white = TRUE
    /\ computer_is_black = TRUE
    /\ exit_status = -1
    /\ engine = "prune"
    /\ transposition_table = init_transposition_table
    /\ time_limit_reached = FALSE
    /\ expired = FALSE
    /\ phase = "search"
    /\ solves = 0
    /\ current_depth = 2
    /\ current_best_move = Uninit
    /\ current_score = 0
    /\ best_move_so_far = Uninit
    /\ move_found = TRUE
    /\ result = Uninit
    /\ ret = NoRet
    /\ cancelled_at = -1
    /\ tt_used = FALSE
    /\ completed_best = Uninit
    /\ prev = NoSolve
    /\ last_store = NoStore
    /\ killer_age = [d \in 1..MAX_DEPTH |-> << >>]
    /\ pawn_files = << >>
    /\ pawn_ret = NoRet
    /\ qstack = << >>
    /\ qwindow = NoWindow
    /\ \E b \in Boards, ply \in {0, 1} :
         /\ cr = Position(b, 0, << >>)
         /\ root = cr
         /\ stack = << Frame(WhiteToPlay(cr), ply, 2, -INF_SCORE, INF_SCORE) >>
         /\ pv_moves \in { << >> } \cup
               { [i \in 1..(ply + 1) |-> IF i = ply + 1 THEN m ELSE InvalidMove] :
                   m \in OrderMoves(b) }
         /\ \E kl \in KillerLists(b) :
               killer_moves = [d \in 1..MAX_DEPTH |-> IF d = ply + 1 THEN kl ELSE << >>]
         /\ history_table \in HistoryTables(b)

\* the node runs its entry checks and builds its move list
NextOrder == EnterNode

SpecOrder == InitOrder /\ [][NextOrder]_vars

(***************************************************************************)
(* evaluate_pawn_structure, called on its own with the pawn files of one   *)
(* side.  static_eval fills the vector in board order; the function only   *)
(* counts the pawns of each file, so one list is drawn for every multiset  *)
(* of files: the files in non-decreasing order.                            *)
(***************************************************************************)
\* a side has at most MaxPawns pawns, which stand on PawnRanks ranks
MaxPawns == 8
PawnRanks == 6
\* int file_counts[8]
NumFiles == 8

Files == 0..(NumFiles - 1)

\* the number of pawns of a list on a file
PawnsOnFile(files, f) == Cardinality({ k \in 1..Len(files) : files[k] = f })

\* the non-decreasing lists of at most n files, none below lo
RECURSIVE PawnFileListsFrom(_, _)
PawnFileListsFrom(n, lo) ==
    IF n = 0 THEN { << >> }
    ELSE { << >> } \cup
         UNION { { << f >> \o rest : rest \in PawnFileListsFrom(n - 1, f) } :
                   f \in lo..(NumFiles - 1) }

PawnFileLists ==
    { files \in PawnFileListsFrom(MaxPawns, 0) :
        \A f \in Files : PawnsOnFile(files, f) <= PawnRanks }

\* the counting loop: file_counts[file]++ for every entry
file_counts(files) == [f \in Files |-> PawnsOnFile(files, f)]

\* the first loop over the files, from file i on: doubled pawns and islands
RECURSIVE IslandLoop(_, _, _)
IslandLoop(counts, i, st) ==
    IF i = NumFiles THEN st
    ELSE IslandLoop(counts, i + 1,
             IF counts[i] > 0
             THEN [score |-> IF counts[i] > 1
                             THEN st.score - 10 * (counts[i] - 1)
                             ELSE st.score,
                   pawn_islands |-> IF ~st.in_island
                                    THEN st.pawn_islands + 1
                                    ELSE st.pawn_islands,
                   in_island |-> TRUE]
             ELSE [st EXCEPT !.in_island = FALSE])

\* the second loop over the files, from file i on: isolated pawns
RECURSIVE IsolatedLoop(_, _, _)
IsolatedLoop(counts, i, score) ==
    IF i = NumFiles THEN score
    ELSE LET has_adjacent_pawns ==
                 \/ (i > 0 /\ counts[i - 1] > 0)
                 \/ (i < NumFiles - 1 /\ counts[i + 1] > 0)
         IN  IsolatedLoop(counts, i + 1,
                 IF counts[i] > 0 /\ ~has_adjacent_pawns THEN score - 15 ELSE score)

\* is_white is not read
evaluate_pawn_structure(files, is_white) ==
    IsolatedLoop(file_counts(files), 0,
        IslandLoop(file_counts(files), 0,
                   [score |-> 0, pawn_islands |-> 0, in_island |-> FALSE]).score
        - 5 * (IslandLoop(file_counts(files), 0,
                          [score |-> 0, pawn_islands |-> 0, in_island |-> FALSE]).pawn_islands
               - 1))

InitPawns ==
    /\ args = [argc |-> 1, argv1 |-> ""]
    /\ driver = "loop"
    /\ computer_is_white = TRUE
    /\ computer_is_black = TRUE
    /\ exit_status = -1
    /\ engine \in {"super", "prune"}
    /\ cr = Position(1, 0, << >>)
    /\ root = cr
    /\ transposition_table = init_transposition_table
    /\ pv_moves = << >>
    /\ killer_moves = [d \in 1..MAX_DEPTH |-> << >>]
    /\ history_table = [k \in HistKeys |-> 0]
    /\ time_limit_reached = FALSE
    /\ expired = FALSE
    /\ phase = "static_eval"
    /\ solves = 0
    /\ current_depth = 0
    /\ current_best_move = Uninit
    /\ current_score = 0
    /\ best_move_so_far = Uninit
    /\ move_found = FALSE
    /\ result = Uninit
    /\ stack = << >>
    /\ ret = NoRet
    /\ cancelled_at = -1
    /\ tt_used = FALSE
    /\ completed_best = Uninit
    /\ prev = NoSolve
    /\ last_store = NoStore
    /\ killer_age = [d \in 1..MAX_DEPTH |-> << >>]
    /\ qstack = << >>
    /\ qwindow = NoWindow
    /\ pawn_files \in PawnFileLists
    /\ pawn_ret = NoRet

\* static_eval calls evaluate_pawn_structure with the files of a side
EvaluatePawnStructure ==
    /\ phase = "static_eval"
    /\ ~pawn_ret.valid
    /\ \E is_white \in BOOLEAN :
          pawn_ret' = Returned(evaluate_pawn_structure(pawn_files, is_white))
    /\ UNCHANGED << pawn_files, quiesceVars, killer_age, driverVars, engine, cr, root,
                    engineVars, time_limit_reached, expired, phase, solves,
                    solveVars, result, completed_best, prev, last_store,
                    stack, ret, cancelled_at, tt_used >>

NextPawns == EvaluatePawnStructure

SpecPawns == InitPawns /\ [][NextPawns]_vars

(***************************************************************************)
(* Reference: pure minimax of depth max_depth with the same leaf           *)
(* evaluation, draw detection and ply-adjusted mate scores, no pruning     *)
(* and no table.                                                           *)
(***************************************************************************)
RECURSIVE Minimax(_, _, _)
Minimax(pos, ply, max_depth) ==
    IF IsDraw(pos) THEN 0
    ELSE IF Evaluate(pos) # "NOT_TERMINAL" THEN TerminalScore(Evaluate(pos), ply)
    ELSE IF ply = max_depth THEN static_eval(pos)
    ELSE LET legal == GenLegalMoveList(pos)
             vals == { Minimax(PushMove(pos, legal[i]), ply + 1, max_depth) :
                         i \in 1..Len(legal) }
         IN  IF legal = << >> THEN 0
             ELSE IF WhiteToPlay(pos)
                  THEN CHOOSE v \in vals : \A w \in vals : v >= w
                  ELSE CHOOSE v \in vals : \A w \in vals : v <= w

SolveDone == phase = "idle" /\ solves > 0
\* an iteration has just completed with the flag clear
IterationCompleted == phase = "for" /\ move_found
LastDepth == current_depth - 1
PushedFrames == Cardinality({ i \in 1..Len(stack) : stack[i].pc = "wait" })

(***************************************************************************)
(* C1: every PushMove of the search is undone by the matching PopMove      *)
(* before the frame that made it returns, also on the cancellation path:   *)
(* the undo stack is as deep as the number of frames that wait for a       *)
(* pushed move, outside the search the position is the one solve was       *)
(* called with, and so it is when solve has returned.                      *)
(***************************************************************************)
C1_PushPopBalanced ==
    /\ Len(cr.hist) = Len(root.hist) + PushedFrames
    /\ (phase # "search" \/ stack = << >>) => cr = root
    /\ SolveDone => cr = root

\* a solve cancelled five plies deep has unwound and returned
C1_Witness ==
    SolveDone /\ cancelled_at = TimeCheckPeriod /\ cr = root /\ Len(root.hist) > 0

LegalAtRoot == SeqToSet(GenLegalMoveList(root))

(***************************************************************************)
(* C2: whenever the root position has a legal move, the move solve         *)
(* returns is one of the root's legal moves (also for a root that is drawn *)
(* by rule or whose key is in the table).                                  *)
(***************************************************************************)
C2_ReturnsLegalMove ==
    (SolveDone /\ LegalAtRoot # {}) => result \in LegalAtRoot

(***************************************************************************)
(* C3: super-engine: a second solve on the same position, with the table   *)
(* as the first solve left it and neither solve cancelled, returns the     *)
(* move the first solve returned.  (Stated for a first solve that returned *)
(* a legal move.)                                                          *)
(***************************************************************************)
C3_SameMoveTwice ==
    ( /\ SolveDone
      /\ engine = "super"
      /\ prev.valid /\ prev.root = root /\ ~prev.cancelled
      /\ prev.move \in LegalAtRoot
      /\ ~time_limit_reached )
    => result = prev.move

(***************************************************************************)
(* C4: when the root position has no legal move, solve returns the         *)
(* invalid move sentinel, whether or not an iteration completed.           *)
(***************************************************************************)
C4_NoMoveSentinel ==
    (SolveDone /\ LegalAtRoot = {}) => result = InvalidMove

(***************************************************************************)
(* C5: if an iteration returned with the cancellation flag clear, solve    *)
(* returns the root move of the last such iteration, never the move of an  *)
(* iteration in which the flag was set.                                    *)
(***************************************************************************)
C5_ReturnsLastCompleted ==
    (SolveDone /\ completed_best # Uninit) => result = completed_best

\* a cancelled iteration had written another root move than the one returned
C5_Witness ==
    /\ SolveDone
    /\ cancelled_at = TimeCheckPeriod
    /\ completed_best # Uninit
    /\ current_best_move \notin {Uninit, result}

(***************************************************************************)
(* C6: super-engine: an uncancelled root search of depth d with the full   *)
(* window returns the score of the reference minimax of depth d, whatever  *)
(* earlier searches left in the table.                                     *)
(***************************************************************************)
C6_ScoreIsMinimax ==
    (IterationCompleted /\ engine = "super")
    => current_score = Minimax(root, 0, LastDepth)

\* the positions with a fresh history, one per board
FreshPositions == { Position(b, 0, << >>) : b \in Boards }

EntrySound(e, m) ==
    /\ e.bound = "BOUND_EXACT" => m = e.score
    /\ e.bound = "BOUND_LOWER" => m >= e.score
    /\ e.bound = "BOUND_UPPER" => m <= e.score

(***************************************************************************)
(* C7: every written table entry (key, depth s, score v, bound) is sound   *)
(* for the minimax value of depth s of every position with that key:       *)
(* EXACT means equal, LOWER means the value is at least v, UPPER at most v.*)
(* (Stated for the entries written by the first solve on a fresh table.)   *)
(***************************************************************************)
C7_EntriesSound ==
    \A i \in DOMAIN transposition_table :
        LET e == transposition_table[i]
        IN  (e.depth >= 0 /\ solves = 0) =>
              \A p \in FreshPositions :
                  compute_zobrist_key(p) = e.key
                  => EntrySound(e, Minimax(p, 0, e.depth))

(***************************************************************************)
(* C8: once the cancellation flag is set, no table slot and no root move   *)
(* is written for the rest of that solve: the frame that sets the flag and *)
(* every ancestor frame only return 0.                                     *)
(***************************************************************************)
C8_NoWriteAfterCancel ==
    [][ time_limit_reached' =>
          /\ transposition_table' = transposition_table
          /\ current_best_move' = current_best_move
          /\ (stack' # stack => (stack' = Pop(stack) /\ ret' = Returned(0))) ]_vars

\* super-engine: the flag was set five plies deep, after table stores, and
\* the frames are unwinding
C8_Witness ==
    /\ engine = "super"
    /\ time_limit_reached
    /\ cancelled_at = TimeCheckPeriod
    /\ phase = "search"
    /\ Len(stack) \in 1..2
    /\ ret = Returned(0)
    /\ \E i \in DOMAIN transposition_table : transposition_table[i].depth >= 1

\* value of a root move for the reference minimax of depth d
RootMoveValue(m, d) == Minimax(PushMove(root, m), 1, d)

\* the root moves that start a forced mate for the side to move within d plies
MatingMoves(d) ==
    { m \in LegalAtRoot :
        IF WhiteToPlay(root) THEN RootMoveValue(m, d) >= INF_SCORE - d
        ELSE RootMoveValue(m, d) <= -INF_SCORE + d }

(***************************************************************************)
(* C9: when the side to move has forced mates of different lengths inside  *)
(* the searched depth, the completed iteration chooses a root move that    *)
(* starts a shortest one.  (Stated for iterations that chose a legal move.)*)
(***************************************************************************)
C9_ShortestMate ==
    ( /\ IterationCompleted
      /\ best_move_so_far \in LegalAtRoot
      /\ \E m1, m2 \in MatingMoves(LastDepth) :
            RootMoveValue(m1, LastDepth) # RootMoveValue(m2, LastDepth) )
    => RootMoveValue(best_move_so_far, LastDepth) = Minimax(root, 0, LastDepth)

\* the order in which the root's move loop tries the moves in the first
\* iteration of a solve (pv_moves is empty then)
RootOrder ==
    IF engine = "super" THEN OrderSuper(root)
    ELSE OrderPrune(root, 0, << >>, killer_moves, history_table)

StaticEvalAfter(m) == static_eval(PushMove(root, m))

\* what a depth-1 search gives the position after m: 0 for a draw or a
\* stalemate, the ply-adjusted mate score, otherwise static_eval
LeafValueAfter(m) == RootMoveValue(m, 1)

\* the earliest move of RootOrder whose value is the best for the side to move
EarliestBest(value(_)) ==
    LET order == RootOrder
        vals == { value(order[i]) : i \in 1..Len(order) }
        best == IF WhiteToPlay(root)
                THEN CHOOSE v \in vals : \A w \in vals : w <= v
                ELSE CHOOSE v \in vals : \A w \in vals : w >= v
        first == CHOOSE i \in 1..Len(order) :
                    /\ value(order[i]) = best
                    /\ \A j \in 1..(i - 1) : value(order[j]) # best
    IN  order[first]

DepthOneCompleted == IterationCompleted /\ current_depth = 2 /\ LegalAtRoot # {}

(***************************************************************************)
(* C10: in an uncancelled depth-1 iteration the chosen root move is the    *)
(* earliest move of the ordering among those whose resulting position has  *)
(* the maximum (white to move) or minimum (black to move) static_eval.     *)
(***************************************************************************)
C10_DepthOneMaxStaticEval ==
    DepthOneCompleted => best_move_so_far = EarliestBest(StaticEvalAfter)

\* the same statement with the leaf value in place of static_eval
C10_DepthOneMaxLeafValue ==
    DepthOneCompleted => best_move_so_far = EarliestBest(LeafValueAfter)

\* the root was expanded: not drawn by rule and never answered from the table
RootExpanded == ~IsDraw(root) /\ ~tt_used

\* with the leaf value, and only for iterations that expanded the root and
\* used no table entry, the statement holds
C10_DepthOneExpandedRoot ==
    (DepthOneCompleted /\ RootExpanded)
    => best_move_so_far = EarliestBest(LeafValueAfter)

\* such an iteration with two root moves tied for the best value
C10_ExpandedRootTie ==
    /\ DepthOneCompleted /\ RootExpanded
    /\ \E m1, m2 \in LegalAtRoot :
          /\ m1 # m2
          /\ LeafValueAfter(m1) = LeafValueAfter(m2)
          /\ LeafValueAfter(m1) = Minimax(root, 0, 1)

\* the ordering tables as the constructor leaves them
NoKillers == [d \in 1..MAX_DEPTH |-> << >>]
NoHistory == [k \in HistKeys |-> 0]

(***************************************************************************)
(* C11: in the prune-engine the score of an uncancelled full-window root   *)
(* search of depth d equals the pure minimax value of depth d, whatever    *)
(* the killer lists, the history table and pv_moves hold.                  *)
(***************************************************************************)
C11_PruneScoreIsMinimax ==
    (IterationCompleted /\ engine = "prune")
    => current_score = Minimax(root, 0, LastDepth)

\* a completed iteration of depth >= 3 in a second solve, entered with killer
\* and history contents that change the root's move order
C11_Witness ==
    /\ IterationCompleted /\ engine = "prune"
    /\ solves = 1
    /\ LastDepth >= 3
    /\ killer_moves # NoKillers
    /\ history_table # NoHistory
    /\ OrderPrune(root, 0, pv_moves, killer_moves, history_table)
         # OrderPrune(root, 0, << >>, NoKillers, NoHistory)
    /\ current_score = Minimax(root, 0, LastDepth)

\* this step is a finished super-engine node calling store_tt
StoreStep ==
    /\ engine = "super" /\ phase = "search" /\ stack # << >>
    /\ Top.pc = "finish"
    /\ stack' = Pop(stack)

C12_RefusedByOtherKey ==
    /\ last_store.valid
    /\ last_store.old.key # last_store.key
    /\ last_store.old.depth > last_store.depth
    /\ transposition_table[TTIndex(last_store.key)] = last_store.old

PlaysWhite == args.argc > 1 /\ args.argv1 = "--white"
PlaysBlack == args.argc = 1 \/ (args.argc > 1 /\ args.argv1 = "--black")

(***************************************************************************)
(* C14: the driver plays exactly one side for the computer: black with no  *)
(* argument or --black, white with --white, and solve is only called for   *)
(* that side; with any other first argument it exits with status 1 before  *)
(* the position and the engine are created.                                *)
(***************************************************************************)
C14_DriverSide ==
    /\ driver \in {"init", "loop"} =>
          /\ computer_is_white = PlaysWhite
          /\ computer_is_black = PlaysBlack
          /\ computer_is_white # computer_is_black
          /\ exit_status = -1
    /\ (phase # "idle" \/ solves > 0) =>
          /\ driver = "loop"
          /\ WhiteToPlay(root) = computer_is_white
    /\ (~PlaysWhite /\ ~PlaysBlack) =>
          /\ driver \in {"start", "exit"}
          /\ driver = "exit" => exit_status = 1
          /\ phase = "idle" /\ solves = 0
    /\ driver = "exit" => (~PlaysWhite /\ ~PlaysBlack)

\* started without an argument, the computer has made a move for black
C14_Witness ==
    /\ args.argc = 1
    /\ driver = "loop" /\ computer_is_black /\ ~computer_is_white
    /\ SolveDone /\ ~WhiteToPlay(root)
    /\ result \in LegalAtRoot

\* started with another argument, main has returned 1
C14_UsageExit == driver = "exit" /\ exit_status = 1 /\ args.argv1 = "--help"

\* this step is a super-engine node passing its cancellation and time check
\* and running its entry checks
EntryStep ==
    /\ engine = "super" /\ phase = "search" /\ stack # << >>
    /\ Top.pc = "entry"
    /\ ~time_limit_reached /\ ~time_limit_reached'
    /\ stack' # stack

\* the step returns v from the node; the step goes on with window (a, b)
StepReturns(v) == stack' = Pop(stack) /\ ret' = Returned(v)
StepWindow(a, b) ==
    Len(stack') = Len(stack) =>
        /\ stack'[Len(stack)].alpha_score = a
        /\ stack'[Len(stack)].beta_score = b

C15_ShallowEntrySeen ==
    /\ engine = "super" /\ phase = "search" /\ stack # << >>
    /\ Top.pc = "loop" /\ Top.i = 1
    /\ transposition_table[TTIndex(Top.key)].key = Top.key
    /\ transposition_table[TTIndex(Top.key)].depth \in 0..(Top.search_depth - 1)

\* the window the innermost frame was called with: the root's is the full
\* window, a child's is its parent's window at the time of the call
EntryAlpha == IF Len(stack) = 1 THEN -INF_SCORE ELSE stack[Len(stack) - 1].alpha_score
EntryBeta == IF Len(stack) = 1 THEN INF_SCORE ELSE stack[Len(stack) - 1].beta_score

(***************************************************************************)
(* C16: a node that finishes its move loop with best_score stores UPPER if *)
(* best_score <= its entry alpha, LOWER if best_score >= its entry beta,   *)
(* and EXACT otherwise, for white-to-move and black-to-move nodes alike.   *)
(* (Stated for the stores that replace the slot.)                          *)
(***************************************************************************)
C16_BoundByEntryWindow ==
    [][ (StoreStep /\ Top.search_depth > transposition_table[TTIndex(Top.key)].depth)
        => transposition_table'[TTIndex(Top.key)].bound =
              IF Top.best_score <= EntryAlpha THEN "BOUND_UPPER"
              ELSE IF Top.best_score >= EntryBeta THEN "BOUND_LOWER"
              ELSE "BOUND_EXACT" ]_vars

\* the same for white-to-move nodes only
C16_WhiteNodes ==
    [][ (StoreStep /\ Top.is_white_player
           /\ Top.search_depth > transposition_table[TTIndex(Top.key)].depth)
        => transposition_table'[TTIndex(Top.key)].bound =
              IF Top.best_score <= EntryAlpha THEN "BOUND_UPPER"
              ELSE IF Top.best_score >= EntryBeta THEN "BOUND_LOWER"
              ELSE "BOUND_EXACT" ]_vars

\* the table entry of the node's key produces a cut for window (alpha, beta)
TableCut(e, key, s, alpha, beta) ==
    /\ e.key = key /\ e.depth >= s
    /\ \/ e.bound = "BOUND_EXACT"
       \/ e.bound = "BOUND_LOWER" /\ (e.score >= beta \/ Max(alpha, e.score) >= beta)
       \/ e.bound = "BOUND_UPPER" /\ (e.score <= alpha \/ alpha >= Min(beta, e.score))

(***************************************************************************)
(* C17: a node runs its checks in the order cancellation and time check,   *)
(* key and table probe-cut, draw, terminal, horizon, expansion.  A node    *)
(* whose entry cuts returns the stored score whether or not the position   *)
(* is drawn or terminal, and the key, computed from board, side, castling  *)
(* mask and en-passant file, is the same for every move history.           *)
(***************************************************************************)
C17_CheckOrder ==
    [][ (engine = "super" /\ phase = "search" /\ stack # << >>
           /\ Top.pc = "entry" /\ stack' # stack)
        => LET f == Top
               key == compute_zobrist_key(cr)
               e == transposition_table[key % TT_SIZE]
           IN  /\ \A c \in {0, cr.clock, FiftyMoveLimit} : \A h \in {<< >>, cr.hist} :
                     compute_zobrist_key(Position(cr.board, c, h)) = key
               /\ IF time_limit_reached \/ (f.depth % TimeCheckPeriod = 0 /\ expired)
                  THEN time_limit_reached' /\ StepReturns(0)
                  ELSE IF TableCut(e, key, f.max_depth - f.depth,
                                   f.alpha_score, f.beta_score)
                  THEN StepReturns(e.score)
                  ELSE IF IsDraw(cr) THEN StepReturns(0)
                  ELSE IF Evaluate(cr) # "NOT_TERMINAL"
                  THEN StepReturns(TerminalScore(Evaluate(cr), f.depth))
                  ELSE IF f.depth = f.max_depth THEN StepReturns(static_eval(cr))
                  ELSE IF GenLegalMoveList(cr) = << >> THEN StepReturns(0)
                  ELSE Len(stack') = Len(stack) /\ stack'[Len(stack)].pc = "loop" ]_vars

\* a node whose position is drawn by rule has returned the non-zero score of
\* the entry stored for the same board with another move history
C17_Witness ==
    /\ engine = "super" /\ phase = "search"
    /\ ~time_limit_reached
    /\ ret.valid /\ ret.score # 0
    /\ IsDraw(cr)
    /\ transposition_table[TTIndex(compute_zobrist_key(cr))].key = compute_zobrist_key(cr)
    /\ transposition_table[TTIndex(compute_zobrist_key(cr))].score = ret.score

(***************************************************************************)
(* C18: solve runs root searches with max_depth 1, 2, 3, ... increasing by *)
(* exactly one, at most MAX_DEPTH of them; it starts the next one only if  *)
(* the one before returned with the flag clear; after the first iteration  *)
(* in which the flag is set it starts no further iteration and keeps       *)
(* neither that iteration's move nor its score.                            *)
(***************************************************************************)
C18_IterativeDeepening ==
    [][ /\ (phase = "for" /\ phase' = "search") =>
             /\ ~time_limit_reached
             /\ current_depth \in 1..MAX_DEPTH
             /\ current_depth > 1 => move_found
             /\ Len(stack') = 1
             /\ stack'[1].depth = 0 /\ stack'[1].max_depth = current_depth
             /\ stack'[1].alpha_score = -INF_SCORE /\ stack'[1].beta_score = INF_SCORE
        /\ (phase = "search" /\ phase' # "search") =>
             IF time_limit_reached
             THEN /\ phase' = "after"
                  /\ UNCHANGED << current_depth, current_score, best_move_so_far,
                                  move_found >>
             ELSE /\ phase' = "for"
                  /\ current_depth' = current_depth + 1
                  /\ current_score' = ret.score
                  /\ move_found'
        /\ current_depth' # current_depth =>
             \/ phase = "idle" /\ current_depth' = 1
             \/ phase = "search" /\ current_depth' = current_depth + 1
        /\ (time_limit_reached /\ time_limit_reached') => phase' # "search" \/ phase = "search"
      ]_vars

\* iterations 1 .. MAX_DEPTH - 1 completed and the last one was cancelled deep
\* in the tree: solve is about to return the move of iteration MAX_DEPTH - 1
C18_Witness ==
    /\ phase = "after"
    /\ time_limit_reached /\ cancelled_at = TimeCheckPeriod
    /\ current_depth = MAX_DEPTH
    /\ move_found
    /\ best_move_so_far = completed_best

\* the root frame of the running iteration has passed its time check
RootPastEntry == phase = "search" /\ stack # << >> /\ stack[1].pc # "entry"

(***************************************************************************)
(* C19: the flag is set only at the entry of a node whose ply is a         *)
(* multiple of 5 (ply 0 included) and only when the time limit has passed. *)
(* So an iteration with max_depth <= 4 is cancelled only at its root       *)
(* entry, before any move is pushed: once its root has passed the time     *)
(* check the flag stays clear until the root call has returned, whatever   *)
(* time elapses.                                                           *)
(***************************************************************************)
C19_CancelOnlyEveryFifthPly ==
    [][ /\ (~time_limit_reached /\ time_limit_reached') =>
             /\ phase = "search" /\ stack # << >>
             /\ Top.pc = "entry"
             /\ Top.depth % 5 = 0
             /\ expired
             /\ StepReturns(0)
             /\ Top.max_depth <= 4 => (Len(stack) = 1 /\ cr = root)
        /\ (RootPastEntry /\ stack[1].max_depth <= 4) => ~time_limit_reached'
      ]_vars

\* the root call of the depth-4 iteration has returned its minimax value with
\* the flag clear although the time limit had passed
C19_Witness ==
    /\ engine = "prune"
    /\ phase = "search" /\ stack = << >> /\ ret.valid
    /\ current_depth = 4
    /\ expired /\ ~time_limit_reached
    /\ Len(GenLegalMoveList(root)) > 1 /\ ~IsDraw(root)
    /\ ret.score = Minimax(root, 0, 4)

(***************************************************************************)
(* C20: the flag is false when the first root search of every solve        *)
(* starts, also after a cancelled solve; within a solve it changes only    *)
(* from false to true, only in the time check at a node entry, and once    *)
(* true it stays true until the next solve.                                *)
(***************************************************************************)
C20_FlagLifecycle ==
    [][ /\ (phase = "idle" /\ phase' # "idle") => ~time_limit_reached'
        /\ (phase = "for" /\ phase' = "search" /\ current_depth = 1)
              => ~time_limit_reached
        /\ (time_limit_reached /\ ~time_limit_reached')
              => (phase = "idle" /\ phase' = "for")
        /\ (~time_limit_reached /\ time_limit_reached')
              => /\ phase = "search" /\ phase' = "search"
                 /\ stack # << >> /\ Top.pc = "entry"
                 /\ expired
                 /\ stack' = Pop(stack)
      ]_vars

\* the first root search of a solve is running with the flag clear, and the
\* solve before it ended cancelled
C20_Witness ==
    /\ prev.valid /\ prev.cancelled
    /\ phase = "search" /\ current_depth = 1
    /\ stack # << >> /\ Top.pc = "loop"
    /\ ~time_limit_reached

(***************************************************************************)
(* C21: every store_tt call of the search passes max_depth - ply, the      *)
(* plies left below the node, and this is at least 1 and at most           *)
(* MAX_DEPTH because a node at the horizon returns before the store; so    *)
(* the slot a store call addressed holds a depth of at least 1 afterwards, *)
(* every slot holds a depth in 1..MAX_DEPTH or is the untouched initial    *)
(* entry of depth -1.                                                      *)
(***************************************************************************)
C21_StoredDepthIsDepthToGo ==
    /\ [](\A i \in DOMAIN transposition_table :
             \/ transposition_table[i] = init_transposition_table[i]
             \/ transposition_table[i].depth \in 1..MAX_DEPTH)
    /\ [][ StoreStep =>
             /\ Top.depth < Top.max_depth
             /\ last_store'.valid
             /\ last_store'.key = Top.key
             /\ last_store'.depth = Top.max_depth - Top.depth
             /\ last_store'.depth \in 1..MAX_DEPTH
             /\ transposition_table'[TTIndex(Top.key)].depth >= last_store'.depth
             /\ transposition_table'[TTIndex(Top.key)].depth \in 1..MAX_DEPTH ]_vars

\* the table holds the root of the deepest iteration with depth MAX_DEPTH, a
\* node one ply above the horizon with depth 1, and a slot never written
C21_Witness ==
    /\ \E i \in DOMAIN transposition_table : transposition_table[i].depth = MAX_DEPTH
    /\ \E i \in DOMAIN transposition_table : transposition_table[i].depth = 1
    /\ \E i \in DOMAIN transposition_table : transposition_table[i].depth = -1
    /\ last_store.valid /\ last_store.depth = 1 /\ last_store.old.depth = -1

\* this step takes a super-engine node from its entry checks to its move loop
ExpandStep ==
    /\ EntryStep
    /\ Len(stack') = Len(stack)
    /\ stack'[Len(stack)].pc = "loop"

\* the best_move of the entry the table holds for the position, when that
\* move is legal in the position
TableMove(table, pos) ==
    LET e == table[TTIndex(compute_zobrist_key(pos))]
    IN  IF e.key = compute_zobrist_key(pos) /\ e.depth >= 1
           /\ e.best_move \in SeqToSet(GenLegalMoveList(pos))
        THEN {e.best_move} ELSE {}

(***************************************************************************)
(* C22: at an interior node whose table slot holds an entry for the node's *)
(* key with a best_move that is legal in the position, that move is the    *)
(* first move the node expands, before the moves ranked by score_move.     *)
(***************************************************************************)
C22_TableMoveFirst ==
    [][ ExpandStep =>
          \A m \in TableMove(transposition_table, cr) :
              stack'[Len(stack)].scored_moves[1] = m ]_vars

\* the moves of such a node are in the order of score_move alone
C22_OrderedByScoreMoveOnly ==
    [][ ExpandStep => stack'[Len(stack)].scored_moves = OrderSuper(cr) ]_vars

\* the outermost quiesce call has returned
QuiesceDone == phase = "quiesce" /\ qstack = << >> /\ ret.valid

\* the static evaluation seen from the side to move
MoverEval(pos) == IF WhiteToPlay(pos) THEN static_eval(pos) ELSE -static_eval(pos)

(***************************************************************************)
(* C23: quiesce returns a score from the perspective of the side to move:  *)
(* called on a position with no legal capture and a window with            *)
(* alpha < (static_eval for the mover) < beta it returns static_eval(pos)  *)
(* when white is to move and -static_eval(pos) when black is to move.      *)
(***************************************************************************)
C23_QuiesceMoverPerspective ==
    (QuiesceDone /\ CaptureOrder(cr) = << >>
       /\ qwindow.alpha < MoverEval(cr) /\ MoverEval(cr) < qwindow.beta)
    => ret.score = MoverEval(cr)

\* with white to move it does
C23_WhiteToMove ==
    (QuiesceDone /\ CaptureOrder(cr) = << >> /\ WhiteToPlay(cr)
       /\ qwindow.alpha < MoverEval(cr) /\ MoverEval(cr) < qwindow.beta)
    => ret.score = static_eval(cr)

\* the killer/history engine returns static_eval(pos) for either side and
\* any window
C23_PruneReturnsStaticEval ==
    (QuiesceDone /\ engine = "prune") => ret.score = static_eval(cr)

\* the quiesce frames that have pushed a capture and not yet popped it
QPushedFrames == Cardinality({ i \in 1..Len(qstack) : qstack[i].pc = "wait" })

(***************************************************************************)
(* C24: every call of the full quiesce returns, for every position and     *)
(* window.  Each recursive call is made after pushing a capture, which     *)
(* lowers the number of pieces on the board by one; each push is undone by *)
(* a pop before the frame returns, also on the return-0 path of a set      *)
(* cancellation flag: the undo stack is as deep as the number of frames    *)
(* waiting for a pushed capture, and the position is the caller's again    *)
(* when the call has returned.                                             *)
(***************************************************************************)
C24_QuiesceTerminates ==
    /\ <>QuiesceDone
    /\ [](Len(cr.hist) = QPushedFrames)
    /\ [](QuiesceDone => cr = root)
    /\ [][ Len(qstack') > Len(qstack) =>
             /\ cr.board # cr'.board
             /\ cr'.hist = Append(cr.hist, [board |-> cr.board, clock |-> cr.clock])
             /\ \E k \in 1..Len(Game[cr.board].moves) :
                   /\ Game[cr.board].moves[k].to = cr'.board
                   /\ Game[cr.board].moves[k].mv.capture # " "
             /\ PieceCount[cr'.board] = PieceCount[cr.board] - 1 ]_vars

\* a call made with the flag set has pushed a capture, taken the return-0
\* path and left the position as it was handed in
C24_Witness ==
    /\ QuiesceDone /\ engine = "super"
    /\ time_limit_reached
    /\ CaptureOrder(cr) # << >>
    /\ static_eval(cr) < qwindow.beta
    /\ ret.score = 0
    /\ cr = root

\* two captures deep
C24_CaptureChain == Len(qstack) = 3 /\ Len(cr.hist) = 2

\* the plies whose killer list this step changes
KillerPlies == { d \in 1..MAX_DEPTH : killer_moves'[d] # killer_moves[d] }

(***************************************************************************)
(* C25: in the killer/history engine the killer list of every ply holds at *)
(* most MAX_KILLER_MOVES = 2 moves, all distinct; and when a new killer is *)
(* recorded into a full list, the move it evicts is the one of the two     *)
(* that was recorded earliest.                                             *)
(***************************************************************************)
C25_KillerFifo ==
    /\ [](\A d \in 1..MAX_DEPTH :
             /\ Len(killer_moves[d]) <= MAX_KILLER_MOVES
             /\ Cardinality(SeqToSet(killer_moves[d])) = Len(killer_moves[d]))
    /\ [][ \A d \in KillerPlies :
             Len(killer_moves[d]) = MAX_KILLER_MOVES =>
                 /\ killer_age[d][1] \notin SeqToSet(killer_moves'[d])
                 /\ killer_age[d][2] \in SeqToSet(killer_moves'[d]) ]_vars

\* the lists are bounded and without repetition
C25_KillersBoundedDistinct ==
    \A d \in 1..MAX_DEPTH :
        /\ Len(killer_moves[d]) <= MAX_KILLER_MOVES
        /\ Cardinality(SeqToSet(killer_moves[d])) = Len(killer_moves[d])
        /\ SeqToSet(killer_age[d]) = SeqToSet(killer_moves[d])
        /\ Len(killer_age[d]) = Len(killer_moves[d])

\* a new killer always goes to the first place of a full list, whatever the
\* age of the move held there
C25_EvictsFirstSlot ==
    [][ \A d \in KillerPlies :
          Len(killer_moves[d]) = MAX_KILLER_MOVES =>
              /\ killer_moves'[d][2] = killer_moves[d][2]
              /\ killer_moves'[d][1] \notin SeqToSet(killer_moves[d]) ]_vars

\* the moves this step adds to the killer list of ply d (d = ply + 1)
NewKillers(d) == SeqToSet(killer_moves'[d]) \ SeqToSet(killer_moves[d])

\* this step is the return of the search of move m into a node at ply d - 1
\* of the killer/history engine, and m has closed the window there
CutoffBy(m, d) ==
    /\ engine = "prune" /\ phase = "search" /\ stack # << >>
    /\ Top.pc = "wait" /\ ret.valid /\ ~time_limit_reached
    /\ Top.depth = d - 1
    /\ m = Top.scored_moves[Top.i]
    /\ Len(stack') = Len(stack)
    /\ stack'[Len(stack)].beta_score <= stack'[Len(stack)].alpha_score

\* m is the PV move of ply d - 1
IsPvMove(m, d) == d - 1 < Len(pv_moves) /\ m = pv_moves[d]

(***************************************************************************)
(* C26: in the killer/history engine a move is added to the killer list of *)
(* a ply only when it caused a cutoff at that ply, it is not a capture     *)
(* (its captured-piece code is the empty code ' ') and it is not the PV    *)
(* move of that ply.                                                       *)
(***************************************************************************)
C26_KillerIsQuietCutoff ==
    [][ \A d \in 1..MAX_DEPTH : \A m \in NewKillers(d) :
          /\ CutoffBy(m, d)
          /\ m.capture = " "
          /\ ~IsPvMove(m, d) ]_vars

\* without the condition on captures
C26_KillerIsCutoffNotPv ==
    [][ \A d \in 1..MAX_DEPTH : \A m \in NewKillers(d) :
          CutoffBy(m, d) /\ ~IsPvMove(m, d) ]_vars

(***************************************************************************)
(* C27: in the killer/history engine all killer lists are empty and all    *)
(* history counters are zero when a solve starts its first iteration, so   *)
(* the order in which a solve expands moves does not depend on what        *)
(* earlier solve calls recorded.                                           *)
(***************************************************************************)
C27_TablesResetPerSolve ==
    (engine = "prune" /\ phase = "for" /\ current_depth = 1)
    => (killer_moves = NoKillers /\ history_table = NoHistory)

\* the tables are as the constructor left them when the first solve starts
C27_FirstSolveStartsEmpty ==
    (engine = "prune" /\ solves = 0 /\ phase = "for" /\ current_depth = 1)
    => (killer_moves = NoKillers /\ history_table = NoHistory)

\* the node at the top runs its entry checks in this step and is neither
\* cancelled, cut by the table, drawn nor terminal
PlainEntryStep ==
    /\ phase = "search" /\ stack # << >> /\ Top.pc = "entry"
    /\ stack' # stack
    /\ ~time_limit_reached /\ ~time_limit_reached'
    /\ \/ engine = "prune"
       \/ ~TableCut(transposition_table[TTIndex(compute_zobrist_key(cr))],
                    compute_zobrist_key(cr), Top.max_depth - Top.depth,
                    Top.alpha_score, Top.beta_score)
    /\ ~IsDraw(cr)
    /\ Evaluate(cr) = "NOT_TERMINAL"

(***************************************************************************)
(* C28: in both engines no move is pushed at a node with ply = max_depth.  *)
(* A horizon node that is neither cut, drawn nor terminal returns exactly  *)
(* static_eval(pos), in the killer/history engine through quiesce, which   *)
(* returns before its capture search; no quiesce frame is ever open during *)
(* a solve.  The ply never exceeds max_depth <= MAX_DEPTH, and during a    *)
(* search the undo stack is never more than max_depth entries above its    *)
(* depth at the call of solve.                                             *)
(***************************************************************************)
C28_HorizonIsStaticEval ==
    /\ [](\A k \in 1..Len(stack) :
             /\ stack[k].depth = k - 1
             /\ stack[k].depth <= stack[k].max_depth
             /\ stack[k].max_depth = current_depth
             /\ stack[k].max_depth <= MAX_DEPTH)
    /\ [](Len(cr.hist) >= Len(root.hist)
           /\ Len(cr.hist) - Len(root.hist) <= current_depth
           /\ (phase # "search" => cr = root))
    /\ [](qstack = << >>)
    /\ [][ /\ Len(stack') > Len(stack) /\ stack # << >>
               => Top.depth < Top.max_depth /\ Len(cr'.hist) = Len(cr.hist) + 1
           /\ cr' # cr => (phase = "idle" \/ Len(stack') # Len(stack) \/ Top.pc = "wait")
           /\ (PlainEntryStep /\ Top.depth = Top.max_depth)
               => /\ StepReturns(static_eval(cr))
                  /\ cr' = cr
                  /\ engine = "prune" =>
                        QuiesceEntry(QFrame(Top.alpha_score, Top.beta_score),
                                     cr, engine).returns ]_vars

\* in an iteration of the killer/history engine with max_depth 3 or more a
\* node at ply max_depth that has a capture available has returned its
\* static evaluation; the undo stack is max_depth entries above its depth at
\* the call of solve
C28_Witness ==
    /\ engine = "prune" /\ phase = "search"
    /\ current_depth >= 3 /\ Len(stack) = current_depth
    /\ Top.pc = "wait"
    /\ Len(cr.hist) = Len(root.hist) + current_depth
    /\ ~IsDraw(cr) /\ Evaluate(cr) = "NOT_TERMINAL"
    /\ CaptureOrder(cr) # << >>
    /\ ret.valid /\ ret.score = static_eval(cr)

\* this step takes a node of the killer/history engine from its entry checks
\* to its move loop
PruneExpandStep ==
    /\ engine = "prune" /\ phase = "search" /\ stack # << >>
    /\ Top.pc = "entry"
    /\ Len(stack') = Len(stack)
    /\ stack'[Len(stack)].pc = "loop"

\* the largest score_move value of a legal move of the position, in hundredths
MaxMoveScore(pos) ==
    LET vals == { score_move(m, pos) : m \in SeqToSet(GenLegalMoveList(pos)) }
    IN  CHOOSE v \in vals : \A w \in vals : v >= w

\* every history counter is below INF_SCORE - 1 minus the largest score_move
HistoryBelowKillers(pos) ==
    \A k \in DOMAIN history_table :
        100 * history_table[k] + MaxMoveScore(pos) < 100 * (INF_SCORE - 1)

\* the PV move of the ply when it is legal, the killers of the ply that are
\* legal and not that PV move
LegalPv(pos, ply) ==
    IF ply < Len(pv_moves) /\ pv_moves[ply + 1] \in SeqToSet(GenLegalMoveList(pos))
    THEN { pv_moves[ply + 1] } ELSE {}
LegalKillers(pos, ply) ==
    (SeqToSet(killer_moves[ply + 1]) \cap SeqToSet(GenLegalMoveList(pos)))
        \ LegalPv(pos, ply)

(***************************************************************************)
(* C29: in the killer/history engine the ordered move list built at an     *)
(* interior node holds each legal move of the position exactly once and    *)
(* nothing else, whatever pv_moves and the killer lists hold; and while    *)
(* every history counter is below INF_SCORE - 1 minus the largest          *)
(* score_move value, the PV move (if legal) comes first, then the legal    *)
(* killers, then all other moves.                                          *)
(***************************************************************************)
C29_OrderedListIsPermutation ==
    [][ PruneExpandStep =>
          LET sm == stack'[Len(stack)].scored_moves
              legal == GenLegalMoveList(cr)
              np == Cardinality(LegalPv(cr, Top.depth))
              nk == Cardinality(LegalKillers(cr, Top.depth))
          IN  /\ Len(sm) = Len(legal)
              /\ SeqToSet(sm) = SeqToSet(legal)
              /\ \A i \in 1..Len(sm) : \A j \in 1..Len(sm) : sm[i] = sm[j] => i = j
              /\ HistoryBelowKillers(cr) =>
                    /\ \A m \in LegalPv(cr, Top.depth) : sm[1] = m
                    /\ \A i \in (np + 1)..(np + nk) :
                          sm[i] \in LegalKillers(cr, Top.depth)
                    /\ \A i \in (np + nk + 1)..Len(sm) :
                          sm[i] \notin LegalPv(cr, Top.depth) \cup LegalKillers(cr, Top.depth)
        ]_vars

\* a list of five moves: the legal PV move, two legal killers, then the two
\* other moves, the one with a history count before the one without
C29_Witness ==
    /\ engine = "prune" /\ phase = "search" /\ stack # << >>
    /\ Top.pc = "loop"
    /\ Len(Top.scored_moves) = 5
    /\ LegalPv(cr, Top.depth) = { Top.scored_moves[1] }
    /\ LegalKillers(cr, Top.depth) = { Top.scored_moves[2], Top.scored_moves[3] }
    /\ history_table[<< Top.scored_moves[4].src, Top.scored_moves[4].dst >>] > 0
    /\ score_move(Top.scored_moves[4], cr) < score_move(Top.scored_moves[5], cr)
    /\ HistoryBelowKillers(cr)

\* a history counter above the bound puts its move before the PV move
C29_HugeHistoryOvertakes ==
    /\ engine = "prune" /\ phase = "search" /\ stack # << >>
    /\ Top.pc = "loop"
    /\ LegalPv(cr, Top.depth) # {}
    /\ Top.scored_moves[1] \notin LegalPv(cr, Top.depth)

\* a killer that is also the PV move is placed once, as the PV move
C29_KillerIsPvMove ==
    /\ engine = "prune" /\ phase = "search" /\ stack # << >>
    /\ Top.pc = "loop"
    /\ LegalPv(cr, Top.depth) \cap SeqToSet(killer_moves[Top.depth + 1]) # {}


\* the pawns beyond the first on the files from f on
RECURSIVE PawnsBeyondFirst(_, _)
PawnsBeyondFirst(files, f) ==
    IF f = NumFiles THEN 0
    ELSE (IF PawnsOnFile(files, f) > 1 THEN PawnsOnFile(files, f) - 1 ELSE 0)
         + PawnsBeyondFirst(files, f + 1)

Occupied(files, f) == f \in Files /\ PawnsOnFile(files, f) > 0

\* pawn islands: maximal runs of occupied files, counted by their first file
PawnIslands(files) ==
    Cardinality({ f \in Files : Occupied(files, f) /\ ~Occupied(files, f - 1) })

\* occupied files whose neighbouring files are both empty
IsolatedFiles(files) ==
    Cardinality({ f \in Files : /\ Occupied(files, f)
                                /\ ~Occupied(files, f - 1)
                                /\ ~Occupied(files, f + 1) })

PawnStructureAsStated(files) ==
    0 - 10 * PawnsBeyondFirst(files, 0)
      - 5 * (IF PawnIslands(files) > 1 THEN PawnIslands(files) - 1 ELSE 0)
      - 15 * IsolatedFiles(files)

(***************************************************************************)
(* C30: for every multiset of pawn files of one side (0 to 8 pawns),       *)
(* evaluate_pawn_structure returns -10 times the number of pawns beyond    *)
(* the first on each file, minus 5 times the number of pawn islands beyond *)
(* the first, minus 15 times the number of occupied files whose            *)
(* neighbouring files are both empty; the result is never positive and is  *)
(* 0 for a side with no pawns.                                             *)
(***************************************************************************)
C30_PawnStructureValue ==
    pawn_ret.valid =>
        /\ pawn_ret.score = PawnStructureAsStated(pawn_files)
        /\ pawn_ret.score <= 0
        /\ (pawn_files = << >> => pawn_ret.score = 0)

\* with at least one pawn the value is the stated one and is never positive
C30_ValueWithPawns ==
    (pawn_ret.valid /\ pawn_files # << >>) =>
        /\ pawn_ret.score = PawnStructureAsStated(pawn_files)
        /\ pawn_ret.score <= 0

\* without pawns the island count is 0 and the island term is -5 * (0 - 1)
C30_NoPawnsValue ==
    (pawn_ret.valid /\ pawn_files = << >>) => pawn_ret.score = 5

\* doubled pawns, two islands and an isolated file in one list
C30_AllTermsSeen ==
    /\ pawn_ret.valid
    /\ PawnsBeyondFirst(pawn_files, 0) > 0
    /\ PawnIslands(pawn_files) > 1
    /\ IsolatedFiles(pawn_files) > 0
    /\ Len(pawn_files) = MaxPawns

====
